---- MODULE Spec2Model ----
(***************************************************************************)
(* State-access bridge of revm_ffi_wrapper: the GoDatabase adapter, the    *)
(* execution instances built on it (RevmInstance over an in-memory         *)
(* CacheDB, RevmInstanceStateDB over the host's StateDB), the commit       *)
(* pipeline and result marshaling.                                         *)
(*                                                                         *)
(* The embedded engine (revm) is consumed as a black box: `replay` below   *)
(* abstracts one transaction into the reads it asks of its database, the   *)
(* outcome (Success / Revert / Halt or an error) and the state diff.  Gas  *)
(* fees are not modelled; balances move by the transferred value only.     *)
(***************************************************************************)
EXTENDS Integers, Sequences, FiniteSets, TLC

(* ------------------------------ bounds -------------------------------- *)
MaxBal == 2
MaxNonce == 1
MaxVal == 1

(* ------------------------------ domains ------------------------------- *)
ZERO == "0x00"
Addr == {"0x00", "0xbb"}
Slot == {0, 1}
Bal == 0..MaxBal
Nonce == 0..MaxNonce
Val == 0..MaxVal
KECCAK_EMPTY == "empty"
B256_ZERO == "zero"
CodeHash == {"empty", "store", "revert", "halt"}
Handles == {7}

NoError == "none"

(* status codes of the foreign calls                                        *)
ST_OK == 0
ST_NOT_FOUND == 1
ST_ERROR == 2
\* the c_int a foreign call can return: the three the adapter matches on and
\* values on either side of them
Statuses == {-1, ST_OK, ST_NOT_FOUND, ST_ERROR, 3}

VARIABLES
    kind,        \* "mem": RevmInstance (CacheDB<EmptyDB>); "statedb": RevmInstanceStateDB (GoDatabase)
    handle,      \* GoDatabase.handle
    cfg,         \* evm.ctx.cfg, the CfgEnv the instance was built with
    peer,        \* a second instance of the same process, not the one being called
    db,          \* accounts and storage behind the instance: the CacheDB ("mem") or the host StateDB ("statedb")
    tx,          \* evm.ctx.tx, the staged transaction
    last_error,  \* instance.last_error
    ret,         \* what the last entry point returned to the host
    calls,       \* foreign calls issued by the last entry point, in order
    pending,     \* the value handed to the step under way: the diff given to commit, the
                 \* reply of re_state_code, or the engine's result about to be marshaled
    heap         \* buffers passed across the boundary: those still allocated, and the releases so far

vars == <<kind, handle, cfg, peer, db, tx, last_error, ret, calls, pending, heap>>

(* ----------------------- wire values and texts ------------------------ *)
\* FFIAccountInfo / AccountInfo (code itself is fetched by hash)
AccountInfo(b, n, h) == [balance |-> b, nonce |-> n, code_hash |-> h]

NoAccount == [exists |-> FALSE, info |-> AccountInfo(0, 0, KECCAK_EMPTY)]
SomeAccount(i) == [exists |-> TRUE, info |-> i]

\* C strings handed in by the host
NullText == [k |-> "null", pfx |-> FALSE, a |-> ZERO, v |-> 0]
AddrText(p, x) == [k |-> "addr", pfx |-> p, a |-> x, v |-> 0]
ShortText == [k |-> "short", pfx |-> TRUE, a |-> ZERO, v |-> 0]
NumText(p, n) == [k |-> "num", pfx |-> p, a |-> ZERO, v |-> n]
JunkText == [k |-> "junk", pfx |-> TRUE, a |-> ZERO, v |-> 0]

Ok(x) == [ok |-> TRUE, val |-> x, err |-> NoError]
Err(e) == [ok |-> FALSE, val |-> 0, err |-> e]
ErrA(e) == [ok |-> FALSE, val |-> ZERO, err |-> e]

\* c_str_to_string followed by hex_to_address: null pointer, optional "0x",
\* 40 hex digits
hex_to_address(t) ==
    IF t.k = "null" THEN ErrA("Null pointer")
    ELSE IF t.k = "addr" THEN Ok(t.a)
    ELSE IF t.k = "junk" THEN ErrA("Invalid hex")
    ELSE ErrA("Invalid address length")

\* c_str_to_string followed by hex_to_u256
hex_to_u256(t) ==
    IF t.k = "null" THEN Err("Null pointer")
    ELSE IF t.k = "num" THEN Ok(t.v)
    ELSE Err("Invalid U256")

\* format!("0x{:x}", value)
u256_to_hex(n) == NumText(TRUE, n)

(* ------------------- the host side of the boundary -------------------- *)
\* code bytes behind each code hash (one opcode byte per contract kind)
CodeOf(hh) ==
    IF hh = "store" THEN <<1>>
    ELSE IF hh = "revert" THEN <<2>>
    ELSE IF hh = "halt" THEN <<3>>
    ELSE <<>>

\* one entry of the foreign-call log
CallRec(f, hd, a, s, i, v, st) ==
    [fn |-> f, handle |-> hd, addr |-> a, slot |-> s, info |-> i, val |-> v, status |-> st]

NoInfo == AccountInfo(0, 0, KECCAK_EMPTY)

\* extern re_state_basic: status and out_info as the host fills them
re_state_basic(d, a, failing) ==
    IF failing THEN [status |-> ST_ERROR, out_info |-> NoInfo]
    ELSE IF d.acct[a].exists THEN [status |-> ST_OK, out_info |-> d.acct[a].info]
    ELSE [status |-> ST_NOT_FOUND, out_info |-> NoInfo]

\* extern re_state_storage
re_state_storage(d, a, s, failing) ==
    IF failing THEN [status |-> ST_ERROR, out_val |-> 0]
    ELSE [status |-> ST_OK, out_val |-> d.storage[a][s]]

\* extern re_state_code: a malloc'ed buffer, its length, the status
re_state_code(hh, failing) ==
    IF failing THEN [status |-> ST_ERROR, ptr_null |-> TRUE, len |-> 0, buf |-> <<>>]
    ELSE [status |-> ST_OK, ptr_null |-> FALSE, len |-> Len(CodeOf(hh)), buf |-> CodeOf(hh)]

\* extern re_state_set_basic: the host stores the record unless it reports an error
re_state_set_basic(d, a, i, failing) ==
    IF failing THEN [status |-> ST_ERROR, d |-> d]
    ELSE [status |-> ST_OK, d |-> [d EXCEPT !.acct[a] = SomeAccount(i)]]

\* extern re_state_set_storage
re_state_set_storage(d, a, s, v, failing) ==
    IF failing THEN [status |-> ST_ERROR, d |-> d]
    ELSE [status |-> ST_OK, d |-> [d EXCEPT !.storage[a][s] = v]]

(* --------------------- GoDatabase: DatabaseRef ------------------------ *)
\* ffi_account_to_revm
ffi_account_to_revm(acc) == AccountInfo(acc.balance, acc.nonce, acc.code_hash)

\* a basic_ref that reads every non-zero status as "no such account"
basic_ref_lenient(reply) ==
    IF reply.status = 0
        THEN [ok |-> TRUE, some |-> TRUE, info |-> ffi_account_to_revm(reply.out_info), err |-> NoError]
    ELSE [ok |-> TRUE, some |-> FALSE, info |-> NoInfo, err |-> NoError]

\* GoDatabase::basic_ref on the reply of re_state_basic
basic_ref(reply) ==
    IF reply.status = 0
        THEN [ok |-> TRUE, some |-> TRUE, info |-> ffi_account_to_revm(reply.out_info), err |-> NoError]
    ELSE IF reply.status = 1
        THEN [ok |-> TRUE, some |-> FALSE, info |-> NoInfo, err |-> NoError]
    ELSE [ok |-> FALSE, some |-> FALSE, info |-> NoInfo, err |-> "Database"]

\* a code_by_hash_ref without the "not found" case: status 1 is an error too
code_by_hash_ref_strict(reply) ==
    IF reply.status # 0
        THEN [ok |-> FALSE, code |-> <<>>, freed |-> 0, err |-> "Database"]
    ELSE IF reply.len = 0 \/ reply.ptr_null
        THEN [ok |-> TRUE, code |-> <<>>, freed |-> 0, err |-> NoError]
    ELSE [ok |-> TRUE, code |-> SubSeq(reply.buf, 1, reply.len), freed |-> 1, err |-> NoError]

\* GoDatabase::code_by_hash_ref on the reply of re_state_code; `freed` counts
\* the free(ptr) calls made on the host buffer
code_by_hash_ref(reply) ==
    IF reply.status = 1
        THEN [ok |-> TRUE, code |-> <<>>, freed |-> 0, err |-> NoError]
    ELSE IF reply.status # 0
        THEN [ok |-> FALSE, code |-> <<>>, freed |-> 0, err |-> "Database"]
    ELSE IF reply.len = 0 \/ reply.ptr_null
        THEN [ok |-> TRUE, code |-> <<>>, freed |-> 0, err |-> NoError]
    ELSE [ok |-> TRUE, code |-> SubSeq(reply.buf, 1, reply.len), freed |-> 1, err |-> NoError]

\* a storage_ref that reads status 1 as an empty slot
storage_ref_lenient(reply) ==
    IF reply.status = 1
        THEN [ok |-> TRUE, val |-> 0, err |-> NoError]
    ELSE IF reply.status # 0
        THEN [ok |-> FALSE, val |-> 0, err |-> "Database"]
    ELSE [ok |-> TRUE, val |-> reply.out_val, err |-> NoError]

\* GoDatabase::storage_ref on the reply of re_state_storage
storage_ref(reply) ==
    IF reply.status # 0
        THEN [ok |-> FALSE, val |-> 0, err |-> "Database"]
    ELSE [ok |-> TRUE, val |-> reply.out_val, err |-> NoError]

\* GoDatabase::block_hash_ref on the reply of re_state_block_hash
block_hash_ref(reply) ==
    IF reply.status # 0
        THEN [ok |-> FALSE, val |-> 0, err |-> "Database"]
    ELSE [ok |-> TRUE, val |-> reply.out_val, err |-> NoError]

(* ------------- Database reads as the engine issues them --------------- *)
\* the foreign call about to be made is one the host answers with an error
Failing(cs, fails) == (Len(cs) + 1) \in fails

\* a Database::basic whose foreign call carries the handle of the first
\* database opened in the process rather than its own
DbBasic_first_handle(k, hd, d, a, cs, fails) ==
    IF k = "mem"
        THEN [res |-> [ok |-> TRUE, some |-> d.acct[a].exists, info |-> d.acct[a].info, err |-> NoError],
              cs |-> cs]
    ELSE LET reply == re_state_basic(d, a, Failing(cs, fails))
         IN [res |-> basic_ref(reply),
             cs |-> Append(cs, CallRec("re_state_basic", 7, a, 0, NoInfo, 0, reply.status))]

\* Database::basic: GoDatabase forwards one foreign call; CacheDB<EmptyDB>
\* answers from its map and cannot fail
DbBasic(k, hd, d, a, cs, fails) ==
    IF k = "mem"
        THEN [res |-> [ok |-> TRUE, some |-> d.acct[a].exists, info |-> d.acct[a].info, err |-> NoError],
              cs |-> cs]
    ELSE LET reply == re_state_basic(d, a, Failing(cs, fails))
         IN [res |-> basic_ref(reply),
             cs |-> Append(cs, CallRec("re_state_basic", hd, a, 0, NoInfo, 0, reply.status))]

\* Database::code_by_hash
DbCode(k, hd, hh, cs, fails) ==
    IF k = "mem"
        THEN [res |-> [ok |-> TRUE, code |-> CodeOf(hh), freed |-> 0, err |-> NoError], cs |-> cs]
    ELSE LET reply == re_state_code(hh, Failing(cs, fails))
         IN [res |-> code_by_hash_ref(reply),
             cs |-> Append(cs, CallRec("re_state_code", hd, ZERO, 0, AccountInfo(0, 0, hh), 0, reply.status))]

\* a Database::storage that answers a failed read with an empty slot
DbStorage_defaulting(k, hd, d, a, s, cs, fails) ==
    IF k = "mem"
        THEN [res |-> [ok |-> TRUE, val |-> d.storage[a][s], err |-> NoError], cs |-> cs]
    ELSE LET reply == re_state_storage(d, a, s, Failing(cs, fails))
         IN [res |-> [ok |-> TRUE, val |-> IF reply.status = 0 THEN reply.out_val ELSE 0, err |-> NoError],
             cs |-> Append(cs, CallRec("re_state_storage", hd, a, s, NoInfo, 0, reply.status))]

\* Database::storage
DbStorage(k, hd, d, a, s, cs, fails) ==
    IF k = "mem"
        THEN [res |-> [ok |-> TRUE, val |-> d.storage[a][s], err |-> NoError], cs |-> cs]
    ELSE LET reply == re_state_storage(d, a, s, Failing(cs, fails))
         IN [res |-> storage_ref(reply),
             cs |-> Append(cs, CallRec("re_state_storage", hd, a, s, NoInfo, 0, reply.status))]

(* -------------------- GoDatabase: DatabaseCommit ---------------------- *)
\* every slot the engine touched, changed or not
touched_storage_slots(account) == DOMAIN account.storage

\* Account::changed_storage_slots: the slots whose present value differs
\* from the original one
changed_storage_slots(account) ==
    {s \in DOMAIN account.storage : account.storage[s].original # account.storage[s].present}

\* the inner loop of GoDatabase::commit: one re_state_set_storage per changed
\* slot, in the map's iteration order; the returned status is dropped
RECURSIVE commit_storage(_, _, _, _, _, _)
commit_storage(hd, st, a, account, slots, fails) ==
    IF slots = <<>> THEN st
    ELSE LET s == Head(slots)
             v == account.storage[s].present
             w == re_state_set_storage(st.d, a, s, v, Failing(st.cs, fails))
             next == [d |-> w.d,
                      cs |-> Append(st.cs, CallRec("re_state_set_storage", hd, a, s, NoInfo, v, w.status))]
         IN commit_storage(hd, next, a, account, Tail(slots), fails)

\* the slots of `sorder` that are changed slots of the account
RECURSIVE SlotsInOrder(_, _)
SlotsInOrder(sorder, account) ==
    IF sorder = <<>> THEN <<>>
    ELSE IF Head(sorder) \in changed_storage_slots(account)
        THEN <<Head(sorder)>> \o SlotsInOrder(Tail(sorder), account)
    ELSE SlotsInOrder(Tail(sorder), account)

\* a commit that adds the diff's balance to the balance the host holds
RECURSIVE commit_accumulating(_, _, _, _, _, _)
commit_accumulating(hd, st, changes, order, sorder, fails) ==
    IF order = <<>> THEN st
    ELSE LET a == Head(order)
             account == changes[a]
             info == AccountInfo(st.d.acct[a].info.balance + account.info.balance,
                                 account.info.nonce, account.info.code_hash)
             w == re_state_set_basic(st.d, a, info, Failing(st.cs, fails))
             afterBasic == [d |-> w.d,
                            cs |-> Append(st.cs, CallRec("re_state_set_basic", hd, a, 0, info, 0, w.status))]
             afterStorage == commit_storage(hd, afterBasic, a, account, SlotsInOrder(sorder, account), fails)
         IN commit_accumulating(hd, afterStorage, changes, Tail(order), sorder, fails)

\* a commit that returns at the first account write the host rejects
RECURSIVE commit_stopping(_, _, _, _, _, _)
commit_stopping(hd, st, changes, order, sorder, fails) ==
    IF order = <<>> THEN st
    ELSE LET a == Head(order)
             account == changes[a]
             info == AccountInfo(account.info.balance, account.info.nonce, account.info.code_hash)
             w == re_state_set_basic(st.d, a, info, Failing(st.cs, fails))
             afterBasic == [d |-> w.d,
                            cs |-> Append(st.cs, CallRec("re_state_set_basic", hd, a, 0, info, 0, w.status))]
             afterStorage == commit_storage(hd, afterBasic, a, account, SlotsInOrder(sorder, account), fails)
         IN IF w.status # ST_OK THEN afterBasic
            ELSE commit_stopping(hd, afterStorage, changes, Tail(order), sorder, fails)

\* GoDatabase::commit: for each account of the map (iteration order `order`),
\* one re_state_set_basic, then its changed slots; no status is looked at
RECURSIVE commit(_, _, _, _, _, _)
commit(hd, st, changes, order, sorder, fails) ==
    IF order = <<>> THEN st
    ELSE LET a == Head(order)
             account == changes[a]
             info == AccountInfo(account.info.balance, account.info.nonce, account.info.code_hash)
             w == re_state_set_basic(st.d, a, info, Failing(st.cs, fails))
             afterBasic == [d |-> w.d,
                            cs |-> Append(st.cs, CallRec("re_state_set_basic", hd, a, 0, info, 0, w.status))]
             afterStorage == commit_storage(hd, afterBasic, a, account, SlotsInOrder(sorder, account), fails)
         IN commit(hd, afterStorage, changes, Tail(order), sorder, fails)

\* CacheDB::commit (the engine's in-memory database): every touched account's
\* info and present storage values replace the cached ones
CacheCommit(d, changes) ==
    [acct |-> [a \in Addr |-> IF a \in DOMAIN changes THEN SomeAccount(changes[a].info) ELSE d.acct[a]],
     storage |-> [a \in Addr |-> [s \in Slot |->
                    IF a \in DOMAIN changes /\ s \in DOMAIN changes[a].storage
                        THEN changes[a].storage[s].present
                    ELSE d.storage[a][s]]]]

\* the iteration orders a map over the given keys can have
Orders(S) == {o \in [1..Cardinality(S) -> S] : \A i, j \in 1..Cardinality(S) : i # j => o[i] # o[j]}

(* ---------------- the engine, consumed as a black box ----------------- *)
\* What the wrapper relies on is kept: sender validation, the value transfer,
\* the nonce bump, storage writes, logs, and the three outcomes. Gas fees are
\* left out: the gas price moves no balance, to the sender's cost or to the
\* block beneficiary's gain.
GWEI == 1000000000

NoChanges == [a \in {} |-> 0]
NoSlots == [s \in {} |-> 0]

\* ExecutionResult<HaltReason>
ExecResult(t, g, r, out, lg, cr) ==
    [tag |-> t, gas_used |-> g, gas_refunded |-> r, output |-> out, logs |-> lg, created |-> cr]
NoResult == ExecResult("None", 0, 0, <<>>, <<>>, "none")

EngineErr(e, cs) == [ok |-> FALSE, err |-> e, result |-> NoResult, state |-> NoChanges, cs |-> cs]
EngineOk(r, st, cs) == [ok |-> TRUE, err |-> NoError, result |-> r, state |-> st, cs |-> cs]

\* an account of the state diff
DiffAccount(i, stor) == [info |-> i, storage |-> stor]

\* the diff of a transaction from `ca` that ran code at (or created) `ta`
MkState(ca, cinfo, ta, tinfo, tstor) ==
    [a \in {ca, ta} |-> IF a = ta THEN DiffAccount(tinfo, tstor) ELSE DiffAccount(cinfo, NoSlots)]

\* the address a Create transaction deploys to (the engine derives it from
\* caller and nonce; here it falls in the modelled address space)
CreateAddress(ca, n) == "0xbb"

\* the word an SSTORE contract stores: the first byte of the call data
DataWord(data) == IF data = <<>> THEN 0 ELSE Head(data)

\* the frame of a Call transaction, its sender validated and loaded
ExecCall(k, hd, d, t, caller, cs0, fails) ==
    LET debited == AccountInfo(caller.balance - t.value, caller.nonce + 1, caller.code_hash)
        bumped == AccountInfo(caller.balance, caller.nonce + 1, caller.code_hash)
        self == t.to = t.caller
        c3 == IF self THEN [res |-> [ok |-> TRUE, some |-> TRUE, info |-> caller, err |-> NoError], cs |-> cs0]
              ELSE DbBasic(k, hd, d, t.to, cs0, fails)
    IN  IF ~c3.res.ok THEN EngineErr(c3.res.err, c3.cs)
        ELSE
        LET target == c3.res.info
            c4 == IF target.code_hash # KECCAK_EMPTY THEN DbCode(k, hd, target.code_hash, c3.cs, fails)
                  ELSE [res |-> [ok |-> TRUE, code |-> <<>>, freed |-> 0, err |-> NoError], cs |-> c3.cs]
            \* the two ends of the transfer when the frame succeeds / is rolled back
            paidTo == IF self THEN bumped
                      ELSE AccountInfo(target.balance + t.value, target.nonce, target.code_hash)
            keptTo == IF self THEN bumped ELSE target
        IN  IF ~c4.res.ok THEN EngineErr(c4.res.err, c4.cs)
            ELSE IF c4.res.code = <<>> THEN
                EngineOk(ExecResult("Success", 1, 0, <<>>, <<>>, "none"),
                         MkState(t.caller, debited, t.to, paidTo, NoSlots), c4.cs)
            ELSE IF c4.res.code = CodeOf("store") THEN
                LET c5 == DbStorage(k, hd, d, t.to, 0, c4.cs, fails)
                    stor == [s \in {0} |-> [original |-> c5.res.val, present |-> DataWord(t.data)]]
                    lg == [address |-> t.to, topics |-> <<0>>, data |-> t.data]
                IN  IF ~c5.res.ok THEN EngineErr(c5.res.err, c5.cs)
                    ELSE EngineOk(ExecResult("Success", 1, 0, <<>>, <<lg>>, "none"),
                                  MkState(t.caller, debited, t.to, paidTo, stor), c5.cs)
            ELSE IF c4.res.code = CodeOf("revert") THEN
                EngineOk(ExecResult("Revert", 1, 0, t.data, <<>>, "none"),
                         MkState(t.caller, bumped, t.to, keptTo, NoSlots), c4.cs)
            ELSE
                EngineOk(ExecResult("Halt", t.gas_limit, 0, <<>>, <<>>, "none"),
                         MkState(t.caller, bumped, t.to, keptTo, NoSlots), c4.cs)

\* the frame of a Create transaction: the init code is the call data; empty
\* init code deploys empty code, the init code <<2>> reverts, any other
\* deploys the SSTORE contract
ExecCreate(k, hd, d, t, caller, cs0, fails) ==
    LET na == CreateAddress(t.caller, caller.nonce)
        debited == AccountInfo(caller.balance - t.value, caller.nonce + 1, caller.code_hash)
        bumped == AccountInfo(caller.balance, caller.nonce + 1, caller.code_hash)
        self == na = t.caller
        c3 == IF self THEN [res |-> [ok |-> TRUE, some |-> TRUE, info |-> bumped, err |-> NoError], cs |-> cs0]
              ELSE DbBasic(k, hd, d, na, cs0, fails)
    IN  IF ~c3.res.ok THEN EngineErr(c3.res.err, c3.cs)
        ELSE
        LET target == c3.res.info
            deployed == IF t.data = <<>> THEN KECCAK_EMPTY ELSE "store"
            made == AccountInfo(target.balance + t.value, 1, deployed)
        IN  IF target.nonce # 0 \/ target.code_hash # KECCAK_EMPTY THEN
                EngineOk(ExecResult("Halt", t.gas_limit, 0, <<>>, <<>>, "none"),
                         MkState(t.caller, bumped, na, IF self THEN bumped ELSE target, NoSlots), c3.cs)
            ELSE IF t.data = <<2>> THEN
                EngineOk(ExecResult("Revert", 1, 0, <<>>, <<>>, "none"),
                         MkState(t.caller, bumped, na, IF self THEN bumped ELSE target, NoSlots), c3.cs)
            ELSE
                EngineOk(ExecResult("Success", 1, 0, CodeOf(deployed), <<>>, na),
                         MkState(t.caller, debited, na, made, NoSlots), c3.cs)

\* ExecuteEvm::replay: run the staged transaction against the database and
\* return ResultAndState, or the engine's error (EVMError::Database when a
\* read failed, EVMError::Transaction when validation rejected it)
replay(k, hd, d, t, cs0, fails) ==
    LET c1 == DbBasic(k, hd, d, t.caller, cs0, fails)
    IN  IF ~c1.res.ok THEN EngineErr(c1.res.err, c1.cs)
        ELSE
        LET caller == c1.res.info
            c2 == IF caller.code_hash # KECCAK_EMPTY THEN DbCode(k, hd, caller.code_hash, c1.cs, fails)
                  ELSE [res |-> [ok |-> TRUE, code |-> <<>>, freed |-> 0, err |-> NoError], cs |-> c1.cs]
        IN  IF ~c2.res.ok THEN EngineErr(c2.res.err, c2.cs)
            ELSE IF c2.res.code # <<>> THEN EngineErr("Transaction", c2.cs)
            ELSE IF t.nonce # caller.nonce THEN EngineErr("Transaction", c2.cs)
            ELSE IF t.gas_limit = 0 THEN EngineErr("Transaction", c2.cs)
            ELSE IF caller.balance < t.value THEN EngineErr("Transaction", c2.cs)
            ELSE IF t.kind = "Call" THEN ExecCall(k, hd, d, t, caller, c2.cs, fails)
            ELSE ExecCreate(k, hd, d, t, caller, c2.cs, fails)

\* the counters of a diff stay inside the modelled ranges
InBounds(st) == \A a \in DOMAIN st : st[a].info.balance \in Bal /\ st[a].info.nonce \in Nonce

(* -------------------------- result marshaling ------------------------- *)
\* the wire integer's maximum, u32::MAX scaled to the modelled gas range
WireMax == 3

\* a null pointer; a non-null pointer is the name of the buffer it owns
NULL == <<>>

\* a conversion that truncates to the wire width (gas as u32)
to_wire_wrapping(g) == g % (WireMax + 1)

\* gas.try_into().unwrap_or(u32::MAX)
to_wire(g) == IF g <= WireMax THEN g ELSE WireMax

\* LogFFI::from_revm_log for the i-th log of a result
from_revm_log(lg, i) ==
    [address |-> <<"log", i, "address">>,
     address_text |-> AddrText(TRUE, lg.address),
     topics_count |-> Len(lg.topics),
     topics |-> IF lg.topics = <<>> THEN NULL ELSE <<"log", i, "topics">>,
     topic_ptrs |-> [j \in 1..Len(lg.topics) |-> <<"log", i, "topic", j>>],
     topic_vals |-> lg.topics,
     data |-> IF lg.data = <<>> THEN NULL ELSE <<"log", i, "data">>,
     data_bytes |-> lg.data,
     data_len |-> Len(lg.data)]

\* a conversion that emits the logs of a Success last to first
convert_execution_result_unordered(result) ==
    IF result.tag = "Success" THEN
        [success |-> 1,
         gas_used |-> to_wire(result.gas_used),
         gas_refunded |-> to_wire(result.gas_refunded),
         output_data |-> IF result.output = <<>> THEN NULL ELSE <<"output">>,
         output_bytes |-> result.output,
         output_len |-> Len(result.output),
         logs_count |-> Len(result.logs),
         logs |-> IF result.logs = <<>> THEN NULL ELSE <<"logs">>,
         log_vals |-> [i \in 1..Len(result.logs) |->
                        from_revm_log(result.logs[Len(result.logs) + 1 - i], i)],
         created_address |-> NULL]
    ELSE IF result.tag = "Revert" THEN
        [success |-> 0,
         gas_used |-> to_wire(result.gas_used),
         gas_refunded |-> 0,
         output_data |-> IF result.output = <<>> THEN NULL ELSE <<"output">>,
         output_bytes |-> result.output,
         output_len |-> Len(result.output),
         logs_count |-> 0,
         logs |-> NULL,
         log_vals |-> <<>>,
         created_address |-> NULL]
    ELSE
        [success |-> -1,
         gas_used |-> to_wire(result.gas_used),
         gas_refunded |-> 0,
         output_data |-> NULL,
         output_bytes |-> <<>>,
         output_len |-> 0,
         logs_count |-> 0,
         logs |-> NULL,
         log_vals |-> <<>>,
         created_address |-> NULL]

\* convert_execution_result: ExecutionResult -> ExecutionResultFFI
convert_execution_result(result) ==
    IF result.tag = "Success" THEN
        [success |-> 1,
         gas_used |-> to_wire(result.gas_used),
         gas_refunded |-> to_wire(result.gas_refunded),
         output_data |-> IF result.output = <<>> THEN NULL ELSE <<"output">>,
         output_bytes |-> result.output,
         output_len |-> Len(result.output),
         logs_count |-> Len(result.logs),
         logs |-> IF result.logs = <<>> THEN NULL ELSE <<"logs">>,
         log_vals |-> [i \in 1..Len(result.logs) |-> from_revm_log(result.logs[i], i)],
         created_address |-> NULL]
    ELSE IF result.tag = "Revert" THEN
        [success |-> 0,
         gas_used |-> to_wire(result.gas_used),
         gas_refunded |-> 0,
         output_data |-> IF result.output = <<>> THEN NULL ELSE <<"output">>,
         output_bytes |-> result.output,
         output_len |-> Len(result.output),
         logs_count |-> 0,
         logs |-> NULL,
         log_vals |-> <<>>,
         created_address |-> NULL]
    ELSE
        [success |-> -1,
         gas_used |-> to_wire(result.gas_used),
         gas_refunded |-> 0,
         output_data |-> NULL,
         output_bytes |-> <<>>,
         output_len |-> 0,
         logs_count |-> 0,
         logs |-> NULL,
         log_vals |-> <<>>,
         created_address |-> NULL]

\* the ExecutionResultFFI behind a null result pointer (nothing to read)
NoFFI ==
    [success |-> 2, gas_used |-> 0, gas_refunded |-> 0, output_data |-> NULL, output_bytes |-> <<>>,
     output_len |-> 0, logs_count |-> 0, logs |-> NULL, log_vals |-> <<>>, created_address |-> NULL]

(* ----------------------- arguments of the host ------------------------ *)
\* data.is_null() || data_len == 0 => Bytes::new(), else a copy of the bytes
call_data(data) == IF data.ptr_null \/ Len(data.bytes) = 0 THEN <<>> ELSE data.bytes

NullData == [ptr_null |-> TRUE, bytes |-> <<1>>]
SomeData(b) == [ptr_null |-> FALSE, bytes |-> b]

TxArg(c, t, v, d, gl, gp, n) ==
    [caller |-> c, to |-> t, value |-> v, data |-> d, gas_limit |-> gl, gas_price |-> gp, nonce |-> n]

\* revm_set_tx: calls and transfers from the zero address to 0xbb, a transfer
\* back, contract creations, and one malformed text per parsed field
SetTxArgs ==
    {TxArg(AddrText(TRUE, ZERO), AddrText(FALSE, "0xbb"), NumText(TRUE, v), SomeData(<<1>>), 1, NullText, n) :
        v \in {0, MaxVal}, n \in {0, MaxNonce}}
    \cup {TxArg(AddrText(FALSE, "0xbb"), AddrText(TRUE, ZERO), NumText(FALSE, 1), SomeData(<<>>), 1, NumText(TRUE, 1), 0),
          TxArg(AddrText(TRUE, ZERO), NullText, NullText, NullData, 1, NullText, 0),
          TxArg(AddrText(TRUE, ZERO), AddrText(TRUE, ZERO), NullText, NullData, 0, NullText, 0)}
    \cup {TxArg(NullText, AddrText(TRUE, "0xbb"), NullText, SomeData(<<>>), 1, NumText(FALSE, 1), 0),
          TxArg(AddrText(TRUE, ZERO), ShortText, NullText, NullData, 1, NullText, 0),
          TxArg(AddrText(TRUE, ZERO), AddrText(TRUE, ZERO), JunkText, NullData, 1, NullText, 0),
          TxArg(AddrText(TRUE, ZERO), AddrText(TRUE, ZERO), NullText, NullData, 0, JunkText, 0)}

AddrArgs == {NullText, ShortText, AddrText(TRUE, "0x00"), AddrText(FALSE, "0xbb")}

SetBalanceArgs ==
    {<<AddrText(TRUE, ZERO), NumText(FALSE, b)>> : b \in {0, 1, MaxBal}}
    \cup {<<NullText, NumText(TRUE, 0)>>, <<AddrText(TRUE, ZERO), NullText>>,
          <<ShortText, NumText(TRUE, 0)>>, <<AddrText(TRUE, ZERO), JunkText>>}

CallArg(f, t, d, v, gl) == [from |-> f, to |-> t, data |-> d, value |-> v, gas_limit |-> gl]

\* revm_call_contract_statedb(_commit): calls and transfers in both
\* directions, and one malformed text per parsed argument
CallArgs ==
    {CallArg(AddrText(TRUE, f), AddrText(FALSE, "0xbb"), d, v, 1) :
        f \in Addr, d \in {NullData, SomeData(<<1>>)}, v \in {NullText} \cup {NumText(TRUE, x) : x \in Val \ {0}}}
    \cup {CallArg(AddrText(FALSE, "0xbb"), AddrText(TRUE, ZERO), SomeData(<<>>), NumText(TRUE, 1), 1)}
    \cup {CallArg(NullText, AddrText(TRUE, ZERO), NullData, NullText, 1),
          CallArg(AddrText(TRUE, ZERO), ShortText, NullData, NullText, 1),
          CallArg(AddrText(TRUE, ZERO), AddrText(TRUE, ZERO), NullData, JunkText, 0)}

\* revm_view_call_contract
ViewArgs ==
    {CallArg(AddrText(TRUE, ZERO), AddrText(FALSE, "0xbb"), d, NullText, 1) : d \in {NullData, SomeData(<<1>>)}}
    \cup {CallArg(NullText, AddrText(TRUE, ZERO), NullData, NullText, 1)}

\* the calls from the zero address to 0xbb alone
FaultCallArgs ==
    {CallArg(AddrText(TRUE, ZERO), AddrText(FALSE, "0xbb"), SomeData(<<1>>), v, 1) :
        v \in {NullText, NumText(TRUE, 1)}}

\* the foreign calls of one entry point that the host answers with an error:
\* none, or any single one of them
MaxCalls == 8
FailSets == {{}} \cup {{i} : i \in 1..MaxCalls}
NoFails == {{}}

(* ------------------------- the return values -------------------------- *)
Ret(o, sent, c, r, t, m) ==
    [op |-> o, sentinel |-> sent, code |-> c, res |-> r, text |-> t, msg |-> m]
RetCode(o, c) == Ret(o, c < 0, c, NoFFI, NullText, NoError)
RetNull(o) == Ret(o, TRUE, 0, NoFFI, NullText, NoError)
RetResult(o, r) == Ret(o, FALSE, 0, r, NullText, NoError)
RetText(o, t) == Ret(o, FALSE, 0, NoFFI, t, NoError)
\* a Result<Bytecode>: the bytes travel in the record's byte field
RetBytes(o, ok, b) ==
    Ret(o, ~ok, 0, [NoFFI EXCEPT !.output_bytes = b, !.output_len = Len(b)], NullText, NoError)

(* ------------------------------- Init --------------------------------- *)
\* the CfgEnv built from RevmConfigFFI::default(): mainnet, Prague, nonce check on
DefaultCfg == [chain_id |-> 1, spec |-> "PRAGUE", disable_nonce_check |-> FALSE]

\* no buffer allocated, none released
EmptyHeap == [live |-> {}, released |-> <<>>]

\* TxEnv::default()
DefaultTx ==
    [caller |-> ZERO, kind |-> "Call", to |-> ZERO, value |-> 0, data |-> <<>>,
     gas_limit |-> 1, gas_price |-> 0, nonce |-> 0]

\* the states of the database an instance is constructed over: the sender
\* funded or unknown to the host, any of the contracts at 0xbb
InitDbs ==
    {[acct |-> [a \in Addr |-> IF a = ZERO THEN z ELSE SomeAccount(AccountInfo(0, 0, hh))],
      storage |-> [a \in Addr |-> [s \in Slot |-> 0]]] :
        z \in {NoAccount, SomeAccount(AccountInfo(1, 0, KECCAK_EMPTY))}, hh \in CodeHash}

\* a host state in which no account exists
EmptyDb ==
    [acct |-> [a \in Addr |-> NoAccount], storage |-> [a \in Addr |-> [s \in Slot |-> 0]]]

\* no instance: nothing constructed yet behind the pointer
NoInstance ==
    [kind |-> "none", handle |-> 0, cfg |-> DefaultCfg, db |-> EmptyDb, tx |-> DefaultTx,
     last_error |-> NoError]

Init ==
    /\ kind \in {"mem", "statedb"}
    /\ handle \in Handles
    /\ cfg = DefaultCfg
    /\ peer = NoInstance
    /\ db \in InitDbs
    /\ tx = DefaultTx
    /\ last_error = NoError
    /\ ret = RetCode("new", 0)
    /\ calls = <<>>
    /\ pending = NoChanges
    /\ heap = EmptyHeap

(* --------------------- RevmInstance entry points ---------------------- *)
\* set_transaction_params: every field is parsed before modify_tx stores any
\* a set_transaction_params whose modify_tx leaves the staged nonce as it was
set_transaction_params_keeping_nonce(t, caller, to, value, data, gas_limit, gas_price, nonce) ==
    LET caller_addr == hex_to_address(caller)
        to_addr == hex_to_address(to)
        val == hex_to_u256(value)
        price == hex_to_u256(gas_price)
    IN  IF ~caller_addr.ok THEN [ok |-> FALSE, err |-> caller_addr.err, tx |-> t]
        ELSE IF to.k # "null" /\ ~to_addr.ok THEN [ok |-> FALSE, err |-> to_addr.err, tx |-> t]
        ELSE IF value.k # "null" /\ ~val.ok THEN [ok |-> FALSE, err |-> val.err, tx |-> t]
        ELSE IF gas_price.k # "null" /\ ~price.ok THEN [ok |-> FALSE, err |-> price.err, tx |-> t]
        ELSE [ok |-> TRUE, err |-> NoError,
              tx |-> [caller |-> caller_addr.val,
                      kind |-> IF to.k = "null" THEN "Create" ELSE "Call",
                      to |-> IF to.k = "null" THEN ZERO ELSE to_addr.val,
                      value |-> IF value.k = "null" THEN 0 ELSE val.val,
                      data |-> call_data(data),
                      gas_limit |-> gas_limit,
                      gas_price |-> IF gas_price.k = "null" THEN GWEI ELSE price.val,
                      nonce |-> t.nonce]]

\* a set_transaction_params that stores each field as soon as it is parsed
set_transaction_params_eager(t, caller, to, value, data, gas_limit, gas_price, nonce) ==
    LET caller_addr == hex_to_address(caller)
        to_addr == hex_to_address(to)
        val == hex_to_u256(value)
        price == hex_to_u256(gas_price)
        t1 == [t EXCEPT !.caller = caller_addr.val]
        t2 == [t1 EXCEPT !.kind = IF to.k = "null" THEN "Create" ELSE "Call",
                         !.to = IF to.k = "null" THEN ZERO ELSE to_addr.val]
        t3 == [t2 EXCEPT !.value = IF value.k = "null" THEN 0 ELSE val.val, !.data = call_data(data)]
    IN  IF ~caller_addr.ok THEN [ok |-> FALSE, err |-> caller_addr.err, tx |-> t]
        ELSE IF to.k # "null" /\ ~to_addr.ok THEN [ok |-> FALSE, err |-> to_addr.err, tx |-> t1]
        ELSE IF value.k # "null" /\ ~val.ok THEN [ok |-> FALSE, err |-> val.err, tx |-> t2]
        ELSE IF gas_price.k # "null" /\ ~price.ok THEN [ok |-> FALSE, err |-> price.err, tx |-> t3]
        ELSE [ok |-> TRUE, err |-> NoError,
              tx |-> [t3 EXCEPT !.gas_limit = gas_limit,
                                !.gas_price = IF gas_price.k = "null" THEN GWEI ELSE price.val,
                                !.nonce = nonce]]

\* set_transaction_params
set_transaction_params(t, caller, to, value, data, gas_limit, gas_price, nonce) ==
    LET caller_addr == hex_to_address(caller)
        to_addr == hex_to_address(to)
        val == hex_to_u256(value)
        price == hex_to_u256(gas_price)
    IN  IF ~caller_addr.ok THEN [ok |-> FALSE, err |-> caller_addr.err, tx |-> t]
        ELSE IF to.k # "null" /\ ~to_addr.ok THEN [ok |-> FALSE, err |-> to_addr.err, tx |-> t]
        ELSE IF value.k # "null" /\ ~val.ok THEN [ok |-> FALSE, err |-> val.err, tx |-> t]
        ELSE IF gas_price.k # "null" /\ ~price.ok THEN [ok |-> FALSE, err |-> price.err, tx |-> t]
        ELSE [ok |-> TRUE, err |-> NoError,
              tx |-> [caller |-> caller_addr.val,
                      kind |-> IF to.k = "null" THEN "Create" ELSE "Call",
                      to |-> IF to.k = "null" THEN ZERO ELSE to_addr.val,
                      value |-> IF value.k = "null" THEN 0 ELSE val.val,
                      data |-> call_data(data),
                      gas_limit |-> gas_limit,
                      gas_price |-> IF gas_price.k = "null" THEN GWEI ELSE price.val,
                      nonce |-> nonce]]

\* revm_set_tx
revm_set_tx(Args) ==
    /\ kind = "mem"
    /\ \E x \in Args :
        LET r == set_transaction_params(tx, x.caller, x.to, x.value, x.data, x.gas_limit, x.gas_price, x.nonce)
        IN  /\ tx' = r.tx
            /\ last_error' = IF r.ok THEN NoError ELSE r.err
            /\ ret' = RetCode("set_tx", IF r.ok THEN 0 ELSE -1)
    /\ calls' = <<>>
    /\ UNCHANGED <<pending, heap, kind, handle, cfg, peer, db>>

\* a revm_execute that writes the diff back to the database
revm_execute_committing ==
    /\ kind = "mem"
    /\ LET r == replay(kind, handle, db, tx, <<>>, {})
       IN  /\ r.ok => InBounds(r.state)
           /\ IF r.ok
                THEN /\ db' = CacheCommit(db, r.state)
                     /\ ret' = RetResult("execute", convert_execution_result(r.result))
                     /\ last_error' = last_error
                ELSE /\ db' = db
                     /\ ret' = RetNull("execute")
                     /\ last_error' = r.err
           /\ calls' = r.cs
    /\ UNCHANGED <<pending, heap, kind, handle, cfg, peer, tx>>

\* a revm_execute that reports every outcome other than Success as an error
revm_execute_strict ==
    /\ kind = "mem"
    /\ LET r == replay(kind, handle, db, tx, <<>>, {})
       IN  /\ IF r.ok /\ r.result.tag = "Success"
                THEN /\ ret' = RetResult("execute", convert_execution_result(r.result))
                     /\ last_error' = last_error
                ELSE /\ ret' = RetNull("execute")
                     /\ last_error' = IF r.ok THEN "Execution failed" ELSE r.err
           /\ calls' = r.cs
    /\ UNCHANGED <<pending, heap, kind, handle, cfg, peer, db, tx>>

\* revm_execute: replay without commit
revm_execute ==
    /\ kind = "mem"
    /\ LET r == replay(kind, handle, db, tx, <<>>, {})
       IN  /\ IF r.ok
                THEN /\ ret' = RetResult("execute", convert_execution_result(r.result))
                     /\ last_error' = last_error
                ELSE /\ ret' = RetNull("execute")
                     /\ last_error' = r.err
           /\ calls' = r.cs
    /\ UNCHANGED <<pending, heap, kind, handle, cfg, peer, db, tx>>

\* a revm_execute_commit that drops the diff
revm_execute_commit_dropping ==
    /\ kind = "mem"
    /\ LET r == replay(kind, handle, db, tx, <<>>, {})
       IN  /\ IF r.ok
                THEN /\ ret' = RetResult("execute_commit", convert_execution_result(r.result))
                     /\ last_error' = last_error
                ELSE /\ ret' = RetNull("execute_commit")
                     /\ last_error' = r.err
           /\ calls' = r.cs
    /\ UNCHANGED <<pending, heap, kind, handle, cfg, peer, db, tx>>

\* a revm_execute_commit that clears the last-error slot when it succeeds
revm_execute_commit_clearing ==
    /\ kind = "mem"
    /\ LET r == replay(kind, handle, db, tx, <<>>, {})
       IN  /\ r.ok => InBounds(r.state)
           /\ IF r.ok
                THEN /\ db' = CacheCommit(db, r.state)
                     /\ ret' = RetResult("execute_commit", convert_execution_result(r.result))
                     /\ last_error' = NoError
                ELSE /\ db' = db
                     /\ ret' = RetNull("execute_commit")
                     /\ last_error' = r.err
           /\ calls' = r.cs
    /\ UNCHANGED <<pending, heap, kind, handle, cfg, peer, tx>>

\* revm_execute_commit: replay, then commit the returned state to the database
revm_execute_commit ==
    /\ kind = "mem"
    /\ LET r == replay(kind, handle, db, tx, <<>>, {})
       IN  /\ r.ok => InBounds(r.state)
           /\ IF r.ok
                THEN /\ db' = CacheCommit(db, r.state)
                     /\ ret' = RetResult("execute_commit", convert_execution_result(r.result))
                     /\ last_error' = last_error
                ELSE /\ db' = db
                     /\ ret' = RetNull("execute_commit")
                     /\ last_error' = r.err
           /\ calls' = r.cs
    /\ UNCHANGED <<pending, heap, kind, handle, cfg, peer, tx>>

\* transfer_impl: translate the inputs, read the sender's nonce, stage the
\* transfer, replay_commit
transfer_impl(k, hd, d, t, from, to, value, gas_limit) ==
    LET from_addr == hex_to_address(from)
        to_addr == hex_to_address(to)
        value_u256 == hex_to_u256(value)
        n == DbBasic(k, hd, d, from_addr.val, <<>>, {})
        current_nonce == IF n.res.some THEN n.res.info.nonce ELSE 0
        staged == [caller |-> from_addr.val, kind |-> "Call", to |-> to_addr.val, value |-> value_u256.val,
                   data |-> <<>>, gas_limit |-> gas_limit, gas_price |-> GWEI, nonce |-> current_nonce]
        Committed(r) ==
            IF ~r.ok THEN [ok |-> FALSE, err |-> r.err, tx |-> staged, result |-> NoResult, d |-> d]
            ELSE IF ~InBounds(r.state)
                THEN [ok |-> FALSE, err |-> "out of bounds", tx |-> staged, result |-> NoResult, d |-> d]
            ELSE [ok |-> TRUE, err |-> NoError, tx |-> staged, result |-> r.result, d |-> CacheCommit(d, r.state)]
    IN  IF ~from_addr.ok THEN [ok |-> FALSE, err |-> from_addr.err, tx |-> t, result |-> NoResult, d |-> d]
        ELSE IF ~to_addr.ok THEN [ok |-> FALSE, err |-> to_addr.err, tx |-> t, result |-> NoResult, d |-> d]
        ELSE IF ~value_u256.ok THEN [ok |-> FALSE, err |-> value_u256.err, tx |-> t, result |-> NoResult, d |-> d]
        ELSE IF ~n.res.ok THEN [ok |-> FALSE, err |-> n.res.err, tx |-> t, result |-> NoResult, d |-> d]
        ELSE Committed(replay(k, hd, d, staged, n.cs, {}))

\* revm_transfer
revm_transfer(Args) ==
    /\ kind = "mem"
    /\ \E x \in Args :
        IF x.from.k = "null" \/ x.to.k = "null" \/ x.value.k = "null"
            THEN /\ ret' = RetNull("transfer")
                 /\ UNCHANGED <<tx, db, last_error>>
        ELSE \E r \in {transfer_impl(kind, handle, db, tx, x.from, x.to, x.value, x.gas_limit)} :
                 /\ r.err # "out of bounds"
                 /\ tx' = r.tx
                 /\ db' = r.d
                 /\ IF r.ok
                        THEN /\ ret' = RetResult("transfer", convert_execution_result(r.result))
                             /\ last_error' = last_error
                        ELSE /\ ret' = RetNull("transfer")
                             /\ last_error' = r.err
    /\ calls' = <<>>
    /\ UNCHANGED <<pending, heap, kind, handle, cfg, peer>>

\* get_balance_impl
get_balance_impl(d, address) ==
    LET addr == hex_to_address(address)
    IN  IF ~addr.ok THEN [ok |-> FALSE, err |-> addr.err, text |-> NullText]
        ELSE IF d.acct[addr.val].exists
            THEN [ok |-> TRUE, err |-> NoError, text |-> u256_to_hex(d.acct[addr.val].info.balance)]
        ELSE [ok |-> TRUE, err |-> NoError, text |-> NumText(TRUE, 0)]

\* revm_get_balance
revm_get_balance(Args) ==
    /\ kind = "mem"
    /\ \E address \in Args :
        IF address.k = "null"
            THEN /\ ret' = RetNull("get_balance")
                 /\ last_error' = last_error
        ELSE LET r == get_balance_impl(db, address)
             IN  IF r.ok
                    THEN /\ ret' = RetText("get_balance", r.text)
                         /\ last_error' = last_error
                 ELSE /\ ret' = RetNull("get_balance")
                      /\ last_error' = r.err
    /\ calls' = <<>>
    /\ UNCHANGED <<pending, heap, kind, handle, cfg, peer, db, tx>>

\* a set_balance_impl that edits the balance of an existing account in
\* place, as set_nonce_impl edits the nonce
set_balance_impl_in_place(d, address, balance) ==
    LET addr == hex_to_address(address)
        balance_val == hex_to_u256(balance)
        existing == d.acct[addr.val]
    IN  IF ~addr.ok THEN [ok |-> FALSE, err |-> addr.err, db |-> d]
        ELSE IF ~balance_val.ok THEN [ok |-> FALSE, err |-> balance_val.err, db |-> d]
        ELSE [ok |-> TRUE, err |-> NoError,
              db |-> [d EXCEPT !.acct[addr.val] =
                        IF existing.exists
                            THEN SomeAccount(AccountInfo(balance_val.val, existing.info.nonce,
                                                         existing.info.code_hash))
                        ELSE SomeAccount(AccountInfo(balance_val.val, 0, KECCAK_EMPTY))]]

\* set_balance_impl: insert_account_info with a fresh record
set_balance_impl(d, address, balance) ==
    LET addr == hex_to_address(address)
        balance_val == hex_to_u256(balance)
    IN  IF ~addr.ok THEN [ok |-> FALSE, err |-> addr.err, db |-> d]
        ELSE IF ~balance_val.ok THEN [ok |-> FALSE, err |-> balance_val.err, db |-> d]
        ELSE [ok |-> TRUE, err |-> NoError,
              db |-> [d EXCEPT !.acct[addr.val] = SomeAccount(AccountInfo(balance_val.val, 0, KECCAK_EMPTY))]]

\* revm_set_balance
revm_set_balance(Args) ==
    /\ kind = "mem"
    /\ \E x \in Args :
        LET address == x[1]
            balance == x[2]
        IN  IF address.k = "null" \/ balance.k = "null"
                THEN /\ ret' = RetCode("set_balance", -1)
                     /\ last_error' = last_error
                     /\ db' = db
            ELSE LET r == set_balance_impl(db, address, balance)
                 IN  /\ db' = r.db
                     /\ ret' = RetCode("set_balance", IF r.ok THEN 0 ELSE -1)
                     /\ last_error' = IF r.ok THEN last_error ELSE r.err
    /\ calls' = <<>>
    /\ UNCHANGED <<pending, heap, kind, handle, cfg, peer, tx>>

\* revm_get_last_error: a pointer to the stored message, or null when the
\* slot is empty (msg = NoError)
revm_get_last_error ==
    /\ kind = "mem"
    /\ ret' = Ret("get_last_error", FALSE, 0, NoFFI, NullText, last_error)
    /\ calls' = <<>>
    /\ UNCHANGED <<pending, heap, kind, handle, cfg, peer, db, tx, last_error>>

\* a view_call_contract_impl that reuses the nonce of the transaction staged
\* before instead of reading the sender's
view_call_contract_impl_cached(k, hd, d, t, from, to, data, gas_limit) ==
    LET from_addr == hex_to_address(from)
        to_addr == hex_to_address(to)
        staged == [caller |-> from_addr.val, kind |-> "Call", to |-> to_addr.val, value |-> 0,
                   data |-> call_data(data), gas_limit |-> gas_limit, gas_price |-> GWEI,
                   nonce |-> t.nonce]
        r == replay(k, hd, d, staged, <<>>, {})
    IN  IF ~from_addr.ok THEN [ok |-> FALSE, err |-> from_addr.err, tx |-> t, result |-> NoResult]
        ELSE IF ~to_addr.ok THEN [ok |-> FALSE, err |-> to_addr.err, tx |-> t, result |-> NoResult]
        ELSE IF ~r.ok THEN [ok |-> FALSE, err |-> r.err, tx |-> staged, result |-> NoResult]
        ELSE [ok |-> TRUE, err |-> NoError, tx |-> staged, result |-> r.result]

\* view_call_contract_impl: parse, read the sender's nonce, stage a zero-value
\* call, replay without commit
view_call_contract_impl(k, hd, d, t, from, to, data, gas_limit) ==
    LET from_addr == hex_to_address(from)
        to_addr == hex_to_address(to)
        n == DbBasic(k, hd, d, from_addr.val, <<>>, {})
        current_nonce == IF n.res.some THEN n.res.info.nonce ELSE 0
        staged == [caller |-> from_addr.val, kind |-> "Call", to |-> to_addr.val, value |-> 0,
                   data |-> call_data(data), gas_limit |-> gas_limit, gas_price |-> GWEI,
                   nonce |-> current_nonce]
        r == replay(k, hd, d, staged, n.cs, {})
    IN  IF ~from_addr.ok THEN [ok |-> FALSE, err |-> from_addr.err, tx |-> t, result |-> NoResult]
        ELSE IF ~to_addr.ok THEN [ok |-> FALSE, err |-> to_addr.err, tx |-> t, result |-> NoResult]
        ELSE IF ~n.res.ok THEN [ok |-> FALSE, err |-> n.res.err, tx |-> t, result |-> NoResult]
        ELSE IF ~r.ok THEN [ok |-> FALSE, err |-> r.err, tx |-> staged, result |-> NoResult]
        ELSE [ok |-> TRUE, err |-> NoError, tx |-> staged, result |-> r.result]

\* revm_view_call_contract
revm_view_call_contract(Args) ==
    /\ kind = "mem"
    /\ \E x \in Args :
        LET r == view_call_contract_impl(kind, handle, db, tx, x.from, x.to, x.data, x.gas_limit)
        IN  /\ tx' = r.tx
            /\ IF r.ok
                THEN /\ ret' = RetResult("view_call_contract", convert_execution_result(r.result))
                     /\ last_error' = last_error
                ELSE /\ ret' = RetNull("view_call_contract")
                     /\ last_error' = r.err
    /\ calls' = <<>>
    /\ UNCHANGED <<pending, heap, kind, handle, cfg, peer, db>>

(* ------------------ RevmInstanceStateDB entry points ------------------ *)
\* the transaction revm_call_contract_statedb(_commit) stages through modify_tx
statedb_tx(from_addr, to_addr, value_u256, data, gas_limit, current_nonce) ==
    [caller |-> from_addr, kind |-> "Call", to |-> to_addr, value |-> value_u256,
     data |-> call_data(data), gas_limit |-> gas_limit, gas_price |-> 0, nonce |-> current_nonce]

\* revm_call_contract_statedb: translate the inputs, read the sender's nonce,
\* stage the transaction, replay without commit
revm_call_contract_statedb(Args, Fails) ==
    /\ kind = "statedb"
    /\ \E x \in Args, fails \in Fails :
        LET from_addr == hex_to_address(x.from)
            to_addr == hex_to_address(x.to)
            val == hex_to_u256(x.value)
            value_u256 == IF x.value.k = "null" THEN 0 ELSE val.val
            n == DbBasic(kind, handle, db, from_addr.val, <<>>, fails)
            current_nonce == IF n.res.some THEN n.res.info.nonce ELSE 0
            t == statedb_tx(from_addr.val, to_addr.val, value_u256, x.data, x.gas_limit, current_nonce)
            r == replay(kind, handle, db, t, n.cs, fails)
        IN  IF ~from_addr.ok THEN
                /\ last_error' = from_addr.err /\ ret' = RetNull("call_statedb")
                /\ calls' = <<>> /\ tx' = tx
            ELSE IF ~to_addr.ok THEN
                /\ last_error' = to_addr.err /\ ret' = RetNull("call_statedb")
                /\ calls' = <<>> /\ tx' = tx
            ELSE IF x.value.k # "null" /\ ~val.ok THEN
                /\ last_error' = val.err /\ ret' = RetNull("call_statedb")
                /\ calls' = <<>> /\ tx' = tx
            ELSE IF ~n.res.ok THEN
                /\ last_error' = n.res.err /\ ret' = RetNull("call_statedb")
                /\ calls' = n.cs /\ tx' = tx
            ELSE
                /\ tx' = t
                /\ calls' = r.cs
                /\ IF r.ok
                    THEN /\ ret' = RetResult("call_statedb", convert_execution_result(r.result))
                         /\ last_error' = last_error
                    ELSE /\ ret' = RetNull("call_statedb")
                         /\ last_error' = r.err
    /\ UNCHANGED <<pending, heap, kind, handle, cfg, peer, db>>

\* revm_call_contract_statedb_commit: as above, but a failed nonce read falls
\* back to 0 (.ok().flatten()...unwrap_or(0)) and the diff is committed
revm_call_contract_statedb_commit(Args, Fails) ==
    /\ kind = "statedb"
    /\ \E x \in Args, fails \in Fails :
        LET from_addr == hex_to_address(x.from)
            to_addr == hex_to_address(x.to)
            val == hex_to_u256(x.value)
            value_u256 == IF x.value.k = "null" THEN 0 ELSE val.val
            n == DbBasic(kind, handle, db, from_addr.val, <<>>, fails)
            current_nonce == IF n.res.ok /\ n.res.some THEN n.res.info.nonce ELSE 0
            t == statedb_tx(from_addr.val, to_addr.val, value_u256, x.data, x.gas_limit, current_nonce)
            r == replay(kind, handle, db, t, n.cs, fails)
        IN  IF ~from_addr.ok THEN
                /\ last_error' = from_addr.err /\ ret' = RetNull("call_statedb_commit")
                /\ calls' = <<>> /\ tx' = tx /\ db' = db
            ELSE IF ~to_addr.ok THEN
                /\ last_error' = to_addr.err /\ ret' = RetNull("call_statedb_commit")
                /\ calls' = <<>> /\ tx' = tx /\ db' = db
            ELSE IF x.value.k # "null" /\ ~val.ok THEN
                /\ last_error' = val.err /\ ret' = RetNull("call_statedb_commit")
                /\ calls' = <<>> /\ tx' = tx /\ db' = db
            ELSE
                /\ r.ok => InBounds(r.state)
                /\ tx' = t
                /\ IF r.ok
                    THEN \E order \in Orders(DOMAIN r.state) :
                            LET c == commit(handle, [d |-> db, cs |-> r.cs], r.state, order, <<0, 1>>, fails)
                            IN  /\ db' = c.d
                                /\ calls' = c.cs
                                /\ ret' = RetResult("call_statedb_commit", convert_execution_result(r.result))
                                /\ last_error' = last_error
                    ELSE /\ db' = db
                         /\ calls' = r.cs
                         /\ ret' = RetNull("call_statedb_commit")
                         /\ last_error' = r.err
    /\ UNCHANGED <<pending, heap, kind, handle, cfg, peer>>

Next ==
    \/ revm_set_tx(SetTxArgs)
    \/ revm_execute
    \/ revm_execute_commit
    \/ revm_get_balance(AddrArgs)
    \/ revm_set_balance(SetBalanceArgs)
    \/ revm_get_last_error
    \/ revm_view_call_contract(ViewArgs)
    \/ revm_call_contract_statedb(CallArgs, NoFails)
    \/ revm_call_contract_statedb_commit(CallArgs, NoFails)

Spec == Init /\ [][Next]_vars

(* ----------- the wrappers that build their own transaction ------------ *)
\* revm_transfer: transfers in both directions, a null and a malformed text
TransferArgs ==
    {CallArg(AddrText(TRUE, f), AddrText(FALSE, t), NullData, NumText(TRUE, v), 1) :
        f \in Addr, t \in Addr, v \in {0, MaxVal}}
    \cup {CallArg(AddrText(TRUE, ZERO), NullText, NullData, NumText(TRUE, 1), 1),
          CallArg(ShortText, AddrText(TRUE, ZERO), NullData, NumText(TRUE, 1), 1)}

NextCalls ==
    \/ revm_transfer(TransferArgs)
    \/ revm_view_call_contract(ViewArgs)
    \/ revm_set_balance(SetBalanceArgs)
    \/ revm_call_contract_statedb(CallArgs, NoFails)
    \/ revm_call_contract_statedb_commit(CallArgs, NoFails)

SpecCalls == Init /\ [][NextCalls]_vars

(* ------------- constructors, and two instances in one process ------------- *)
\* the match on config.spec_id, the same in both constructors
spec_id(n) ==
    IF n \in 0..20
        THEN <<"FRONTIER", "FRONTIER_THAWING", "HOMESTEAD", "DAO_FORK", "TANGERINE",
               "SPURIOUS_DRAGON", "BYZANTIUM", "CONSTANTINOPLE", "PETERSBURG", "ISTANBUL",
               "MUIR_GLACIER", "BERLIN", "LONDON", "ARROW_GLACIER", "GRAY_GLACIER", "MERGE",
               "SHANGHAI", "CANCUN", "CANCUN", "PRAGUE", "OSAKA">>[n + 1]
    ELSE "PRAGUE"

\* a RevmConfigFFI behind the config pointer, or a null pointer; the nonce
\* check stays on, as the engine above assumes
ConfigArg(isnull, chain, spec) ==
    [null |-> isnull, chain_id |-> chain, spec_id |-> spec, disable_nonce_check |-> FALSE]
\* the null config, the default, the BSC preset, the last ordinal of the
\* table and an ordinal past it
Configs ==
    {ConfigArg(TRUE, 1, 19), ConfigArg(FALSE, 1, 19), ConfigArg(FALSE, 56, 18),
     ConfigArg(FALSE, 1, 20), ConfigArg(FALSE, 1, 21)}

\* CfgEnv::new_with_spec(spec_id) with chain_id and disable_nonce_check copied
cfg_env(c) ==
    [chain_id |-> c.chain_id, spec |-> spec_id(c.spec_id), disable_nonce_check |-> c.disable_nonce_check]

\* the handles the host hands out, and the host state behind a fresh one
HostHandles == {7, 9}
HostDbs == {d \in InitDbs : d.acct[ZERO].exists /\ d.acct["0xbb"].info.code_hash = "store"}

\* one call that stores a word at 0xbb, and one with a null sender
InstanceCallArgs ==
    {CallArg(AddrText(TRUE, ZERO), AddrText(FALSE, "0xbb"), SomeData(<<1>>), NullText, 1),
     CallArg(NullText, AddrText(TRUE, ZERO), NullData, NullText, 1)}

\* the instance being called, as a record
ThisInstance ==
    [kind |-> kind, handle |-> handle, cfg |-> cfg, db |-> db, tx |-> tx, last_error |-> last_error]

\* a revm_new_with_statedb that keeps the last error in a process-wide slot,
\* which each construction resets
revm_new_with_statedb_global(Hs, Cs) ==
    /\ kind = "none"
    /\ \E h \in Hs \ {peer.handle}, c \in Cs, d \in HostDbs :
        /\ kind' = "statedb"
        /\ handle' = h
        /\ cfg' = IF c.null THEN DefaultCfg ELSE cfg_env(c)
        /\ db' = d
        /\ pending' = [handle |-> h, config |-> c]
    /\ tx' = DefaultTx
    /\ last_error' = NoError
    /\ peer' = [peer EXCEPT !.last_error = NoError]
    /\ ret' = RetCode("new_with_statedb", 0)
    /\ calls' = <<>>
    /\ UNCHANGED heap

\* revm_new_with_statedb: a null config means the default one; the instance
\* is boxed with a GoDatabase over the handle and no last error
revm_new_with_statedb(Hs, Cs) ==
    /\ kind = "none"
    /\ \E h \in Hs \ {peer.handle}, c \in Cs, d \in HostDbs :
        /\ kind' = "statedb"
        /\ handle' = h
        /\ cfg' = IF c.null THEN DefaultCfg ELSE cfg_env(c)
        /\ db' = d
        /\ pending' = [handle |-> h, config |-> c]
    /\ tx' = DefaultTx
    /\ last_error' = NoError
    /\ ret' = RetCode("new_with_statedb", 0)
    /\ calls' = <<>>
    /\ UNCHANGED <<heap, peer>>

\* revm_new_with_config (revm_new and revm_new_with_preset pass it a config of
\* their own): null for a null config; for every other config the CfgEnv is
\* built and then unimplemented!() panics, which in an extern "C" function
\* aborts the process
revm_new_with_config(Cs) ==
    /\ kind = "none"
    /\ \E c \in Cs :
        /\ pending' = [handle |-> 0, config |-> c]
        /\ IF c.null
            THEN /\ ret' = RetNull("new_with_config")
                 /\ UNCHANGED <<kind, cfg, peer>>
            ELSE /\ ret' = Ret("new_with_config", TRUE, 0, NoFFI, NullText, "not implemented")
                 /\ kind' = "aborted"
                 /\ cfg' = cfg_env(c)
                 /\ peer' = [peer EXCEPT !.kind = IF @ = "none" THEN "none" ELSE "aborted"]
    /\ calls' = <<>>
    /\ UNCHANGED <<heap, handle, db, tx, last_error>>

\* the host turns to its other instance pointer
select_instance ==
    /\ kind \in {"none", "statedb"}
    /\ kind' = peer.kind /\ handle' = peer.handle /\ cfg' = peer.cfg
    /\ db' = peer.db /\ tx' = peer.tx /\ last_error' = peer.last_error
    /\ peer' = ThisInstance
    /\ ret' = RetCode("select", 0)
    /\ calls' = <<>>
    /\ UNCHANGED <<heap, pending>>

\* nothing constructed yet
InitInstances ==
    /\ kind = "none" /\ handle = 0 /\ cfg = DefaultCfg /\ db = EmptyDb
    /\ tx = DefaultTx /\ last_error = NoError
    /\ peer = NoInstance
    /\ ret = RetCode("start", 0)
    /\ calls = <<>>
    /\ pending = NoChanges
    /\ heap = EmptyHeap

NextInstances ==
    \/ revm_new_with_statedb(HostHandles, Configs)
    \/ revm_new_with_config(Configs)
    \/ select_instance
    \/ revm_call_contract_statedb(InstanceCallArgs, NoFails)
    \/ revm_call_contract_statedb_commit(InstanceCallArgs, NoFails)

SpecInstances == InitInstances /\ [][NextInstances]_vars

(* ------------------------- instance teardown --------------------------- *)
\* revm_free_statedb_instance: Box::from_raw drops the instance; the host's
\* copy of the pointer keeps its value
revm_free_statedb_instance ==
    /\ kind = "statedb"
    /\ \A i \in DOMAIN heap.released : heap.released[i] # <<"instance", handle>>
    /\ heap' = [live |-> heap.live, released |-> Append(heap.released, <<"instance", handle>>)]
    /\ ret' = RetCode("free_statedb_instance", 0)
    /\ calls' = <<>>
    /\ UNCHANGED <<kind, handle, cfg, peer, db, tx, last_error, pending>>

\* `&mut *instance` on the pointer of a released instance is a use after
\* free: either the memory still holds the instance, and the entry point runs
\* as on a live one, or the access faults and the process ends
revm_call_contract_statedb_faulting ==
    /\ kind = "statedb"
    /\ \E i \in DOMAIN heap.released : heap.released[i] = <<"instance", handle>>
    /\ kind' = "aborted"
    /\ peer' = [peer EXCEPT !.kind = IF @ = "none" THEN "none" ELSE "aborted"]
    /\ ret' = Ret("call_statedb", TRUE, 0, NoFFI, NullText, "fault")
    /\ calls' = <<>>
    /\ UNCHANGED <<heap, handle, cfg, db, tx, last_error, pending>>

NextFree ==
    \/ revm_new_with_statedb(HostHandles, {ConfigArg(TRUE, 1, 19)})
    \/ revm_free_statedb_instance
    \/ revm_call_contract_statedb_faulting
    \/ select_instance
    \/ revm_call_contract_statedb(InstanceCallArgs, NoFails)
    \/ revm_call_contract_statedb_commit(InstanceCallArgs, NoFails)

SpecFree == InitInstances /\ [][NextFree]_vars

\* the StateDB-backed instance over a host whose foreign calls can fail
InitFaults == Init /\ kind = "statedb"

NextFaults ==
    \/ revm_call_contract_statedb(FaultCallArgs, FailSets)
    \/ revm_call_contract_statedb_commit(FaultCallArgs, FailSets)

SpecFaults == InitFaults /\ [][NextFaults]_vars

(* ------------ GoDatabase::commit on the diffs the engine hands it ------------ *)
\* original and present value of a touched slot
SlotPairs == {[original |-> o, present |-> p] : o, p \in Val}

\* storage parts of a diff account: slot 0 untouched or touched with any pair,
\* slot 1 untouched or changed from 0 to 1
DiffStorages ==
    {NoSlots} \cup {[s \in {0} |-> sp] : sp \in SlotPairs}
    \cup {[s \in {1} |-> [original |-> 0, present |-> 1]]}
    \cup {[s \in Slot |-> IF s = 0 THEN sp ELSE [original |-> 0, present |-> 1]] : sp \in SlotPairs}

\* HashMap<Address, Account>: the sender alone, the contract alone, both, or nothing
Diffs ==
    LET sender == DiffAccount(AccountInfo(1, 1, KECCAK_EMPTY), NoSlots)
        contracts == {DiffAccount(AccountInfo(b, 0, "store"), st) : b \in {0, MaxBal}, st \in DiffStorages}
    IN  {NoChanges} \cup {[a \in {ZERO} |-> sender]}
        \cup {[a \in {"0xbb"} |-> c] : c \in contracts}
        \cup {[a \in Addr |-> IF a = ZERO THEN sender ELSE c] : c \in contracts}

\* DatabaseCommit::commit(changes) on the GoDatabase of a StateDB-backed instance
DatabaseCommit(Changes, Fails) ==
    /\ kind = "statedb"
    /\ \E changes \in Changes, sorder \in Orders(Slot), fails \in Fails :
       \E order \in Orders(DOMAIN changes) :
        LET c == commit(handle, [d |-> db, cs |-> <<>>], changes, order, sorder, fails)
        IN  /\ db' = c.d
            /\ calls' = c.cs
            /\ pending' = changes
    /\ ret' = RetCode("commit", 0)
    /\ UNCHANGED <<kind, handle, cfg, peer, tx, last_error, heap>>

NextCommit == DatabaseCommit(Diffs, NoFails)

SpecCommit == InitFaults /\ [][NextCommit]_vars

\* the write calls of one commit that the host rejects: none, any single
\* one, or all of them
CommitFails ==
    LET writes == 1..(Cardinality(Addr) + Cardinality(Slot))
    IN  {{}, writes} \cup {{i} : i \in writes}

\* the diffs of a call that paid the contract: both accounts, any storage part
FaultDiffs == {c \in Diffs : DOMAIN c = Addr /\ c["0xbb"].info.balance = MaxBal}

NextCommitFaults == DatabaseCommit(FaultDiffs, CommitFails)

SpecCommitFaults == InitFaults /\ [][NextCommitFaults]_vars

(* ------------- GoDatabase::code_by_hash_ref on the host's replies ------------- *)
MaxCodeLen == 2
MaxBuffers == 2

\* what re_state_code can leave in (status, *out_ptr, *out_len): any status,
\* a null or a malloc'ed pointer, any length up to the buffer's size
CodeReplies ==
    {[status |-> st, ptr_null |-> pn, len |-> n, buf |-> [j \in 1..MaxCodeLen |-> j]] :
        st \in Statuses, pn \in BOOLEAN, n \in 0..MaxCodeLen}

\* Database::code_by_hash on a GoDatabase: one re_state_code call; the buffer the
\* host allocated joins the heap and leaves it when the adapter frees it
code_by_hash(Replies) ==
    /\ kind = "statedb"
    /\ Cardinality(heap.live) + Len(heap.released) < MaxBuffers
    /\ \E hh \in {"store", B256_ZERO}, reply \in Replies :
        LET ptr == IF reply.ptr_null THEN NULL
                   ELSE <<"code", Cardinality(heap.live) + Len(heap.released) + 1>>
            r == code_by_hash_ref(reply)
            allocated == IF reply.ptr_null THEN heap.live ELSE heap.live \cup {ptr}
        IN  /\ pending' = [reply |-> reply, ptr |-> ptr]
            /\ heap' = IF r.freed = 1
                        THEN [live |-> allocated \ {ptr}, released |-> Append(heap.released, ptr)]
                        ELSE [live |-> allocated, released |-> heap.released]
            /\ calls' = <<CallRec("re_state_code", handle, ZERO, 0, AccountInfo(0, 0, hh), 0, reply.status)>>
            /\ ret' = RetBytes("code_by_hash", r.ok, r.code)
    /\ UNCHANGED <<kind, handle, cfg, peer, db, tx, last_error>>

NextCode == code_by_hash(CodeReplies)

SpecCode == InitFaults /\ [][NextCode]_vars

(* ------------- GoDatabase reads on the host's replies, and the getters ------------- *)
\* what re_state_basic can leave in (status, *out_info); the host may have
\* written the record whatever status it returns
BasicReplies ==
    {[status |-> st, out_info |-> i] :
        st \in Statuses, i \in {NoInfo, AccountInfo(MaxBal, MaxNonce, "store")}}

\* what re_state_storage and re_state_block_hash can leave in (status, *out)
ValueReplies == {[status |-> st, out_val |-> v] : st \in Statuses, v \in {0, MaxVal}}

\* Database::basic on a GoDatabase
basic(Replies) ==
    /\ kind = "statedb"
    /\ \E a \in Addr, reply \in Replies :
        LET r == basic_ref(reply)
        IN  /\ pending' = [reply |-> reply, addr |-> a, slot |-> 0, out |-> r]
            /\ calls' = <<CallRec("re_state_basic", handle, a, 0, NoInfo, 0, reply.status)>>
            /\ ret' = Ret("basic", ~r.ok, 0, NoFFI, NullText, r.err)
    /\ UNCHANGED <<heap, kind, handle, cfg, peer, db, tx, last_error>>

\* Database::storage on a GoDatabase
storage(Replies) ==
    /\ kind = "statedb"
    /\ \E a \in Addr, s \in Slot, reply \in Replies :
        LET r == storage_ref(reply)
        IN  /\ pending' = [reply |-> reply, addr |-> a, slot |-> s, out |-> r]
            /\ calls' = <<CallRec("re_state_storage", handle, a, s, NoInfo, 0, reply.status)>>
            /\ ret' = Ret("storage", ~r.ok, 0, NoFFI, NullText, r.err)
    /\ UNCHANGED <<heap, kind, handle, cfg, peer, db, tx, last_error>>

\* Database::block_hash on a GoDatabase; the block number travels in the slot field
block_hash(Replies) ==
    /\ kind = "statedb"
    /\ \E number \in Slot, reply \in Replies :
        LET r == block_hash_ref(reply)
        IN  /\ pending' = [reply |-> reply, addr |-> ZERO, slot |-> number, out |-> r]
            /\ calls' = <<CallRec("re_state_block_hash", handle, ZERO, number, NoInfo, 0, reply.status)>>
            /\ ret' = Ret("block_hash", ~r.ok, 0, NoFFI, NullText, r.err)
    /\ UNCHANGED <<heap, kind, handle, cfg, peer, db, tx, last_error>>

\* get_nonce_impl
get_nonce_impl(d, address) ==
    LET addr == hex_to_address(address)
    IN  IF ~addr.ok THEN [ok |-> FALSE, err |-> addr.err, val |-> 0]
        ELSE IF d.acct[addr.val].exists
            THEN [ok |-> TRUE, err |-> NoError, val |-> d.acct[addr.val].info.nonce]
        ELSE [ok |-> TRUE, err |-> NoError, val |-> 0]

\* revm_get_nonce: a u64, so a failure is a 0 with last_error set
revm_get_nonce(Args) ==
    /\ kind = "mem"
    /\ \E address \in Args :
        /\ pending' = address
        /\ IF address.k = "null"
            THEN /\ ret' = RetCode("get_nonce", 0)
                 /\ last_error' = last_error
            ELSE LET r == get_nonce_impl(db, address)
                 IN  /\ ret' = RetCode("get_nonce", r.val)
                     /\ last_error' = IF r.ok THEN last_error ELSE r.err
    /\ calls' = <<>>
    /\ UNCHANGED <<heap, kind, handle, cfg, peer, db, tx>>

NextReads ==
    \/ basic(BasicReplies)
    \/ storage(ValueReplies)
    \/ block_hash(ValueReplies)
    \/ revm_get_balance(AddrArgs)
    \/ revm_get_nonce(AddrArgs)
    \/ revm_set_balance(SetBalanceArgs)

SpecReads == Init /\ [][NextReads]_vars

(* ------------- results marshaled to the host, and their release ------------- *)
\* the logs and results the engine can hand to convert_execution_result
MarshalLogs ==
    {[address |-> "0xbb", topics |-> tp, data |-> dt] : tp \in {<<>>, <<0>>, <<0, 1>>}, dt \in {<<>>, <<1>>}}

EngineResults ==
    {ExecResult("Success", gr[1], gr[2], out, lgs, "none") :
        gr \in {<<1, 0>>, <<2, 1>>, <<WireMax + 1, 0>>, <<WireMax + 2, WireMax + 1>>},
        out \in {<<>>, <<1>>},
        lgs \in {<<>>} \cup {<<l>> : l \in MarshalLogs}}
    \cup {ExecResult("Success", 1, 0, <<>>, <<l1, l2>>, "none") : l1 \in MarshalLogs, l2 \in MarshalLogs}
    \cup {ExecResult("Success", gr[1], gr[2], out, <<>>, "0xbb") :
            gr \in {<<1, 0>>, <<2, 1>>, <<WireMax + 2, WireMax + 1>>}, out \in {<<>>, <<1>>}}
    \cup {ExecResult("Revert", g, 0, out, <<>>, "none") : g \in {1, WireMax + 1}, out \in {<<>>, <<2>>}}
    \cup {ExecResult("Halt", g, 0, <<>>, <<>>, "none") : g \in {1, WireMax + 1}}

\* the buffers from_revm_log leaks into a LogFFI (CString::into_raw, Box::into_raw)
LogBuffers(l) ==
    ({l.address, l.topics, l.data} \cup {l.topic_ptrs[j] : j \in DOMAIN l.topic_ptrs}) \ {NULL}

\* the buffers convert_execution_result hands out through raw pointers
ResultBuffers(r) ==
    ({r.output_data, r.logs} \cup UNION {LogBuffers(r.log_vals[i]) : i \in DOMAIN r.log_vals}) \ {NULL}

\* a deployment result that reports a Halt with the tag of an execution result
deployment_result_tagged(result) ==
    IF result.tag = "Success"
        THEN [success |-> 1,
              contract_address |-> IF result.created # "none" THEN <<"contract_address">> ELSE NULL,
              address_text |-> AddrText(TRUE, IF result.created # "none" THEN result.created ELSE ZERO),
              gas_used |-> to_wire(result.gas_used),
              gas_refunded |-> 0]
    ELSE [success |-> IF result.tag = "Halt" THEN -1 ELSE 0, contract_address |-> NULL,
          address_text |-> AddrText(TRUE, ZERO), gas_used |-> 0, gas_refunded |-> 0]

\* the match of deploy_contract_impl that builds the DeploymentResultFFI
deployment_result(result) ==
    IF result.tag = "Success"
        THEN [success |-> 1,
              contract_address |-> IF result.created # "none" THEN <<"contract_address">> ELSE NULL,
              address_text |-> AddrText(TRUE, IF result.created # "none" THEN result.created ELSE ZERO),
              gas_used |-> to_wire(result.gas_used),
              gas_refunded |-> 0]
    ELSE [success |-> 0, contract_address |-> NULL, address_text |-> AddrText(TRUE, ZERO),
          gas_used |-> 0, gas_refunded |-> 0]

\* the Ok arm of revm_execute and its siblings:
\* Box::into_raw(Box::new(convert_execution_result(result)))
return_execution_result(Results) ==
    /\ ret.op = "new"
    /\ \E result \in Results :
        LET ffi == convert_execution_result(result)
        IN  /\ pending' = result
            /\ ret' = RetResult("execute", ffi)
            /\ heap' = [live |-> ResultBuffers(ffi) \cup {<<"result">>}, released |-> <<>>]
    /\ UNCHANGED <<kind, handle, cfg, peer, db, tx, last_error, calls>>

\* the Ok arm of revm_deploy_contract: Box::into_raw(Box::new(result))
return_deployment_result(Results) ==
    /\ ret.op = "new"
    /\ \E result \in Results :
        LET dep == deployment_result(result)
        IN  /\ pending' = result
            /\ ret' = Ret("deploy_contract", FALSE, 0,
                          [NoFFI EXCEPT !.success = dep.success, !.gas_used = dep.gas_used,
                                        !.gas_refunded = dep.gas_refunded,
                                        !.created_address = dep.contract_address],
                          dep.address_text, NoError)
            /\ heap' = [live |-> {dep.contract_address, <<"deployment">>} \ {NULL}, released |-> <<>>]
    /\ UNCHANGED <<kind, handle, cfg, peer, db, tx, last_error, calls>>

\* revm_free_execution_result on the pointer an execution returned: the box
\* is dropped, and ExecutionResultFFI has no destructor
revm_free_execution_result ==
    /\ ret.op = "execute"
    /\ <<"result">> \in heap.live
    /\ heap' = [live |-> heap.live \ {<<"result">>}, released |-> Append(heap.released, <<"result">>)]
    /\ ret' = RetCode("free_execution_result", 0)
    /\ UNCHANGED <<kind, handle, cfg, peer, db, tx, last_error, calls, pending>>

\* revm_free_deployment_result
revm_free_deployment_result ==
    /\ ret.op = "deploy_contract"
    /\ <<"deployment">> \in heap.live
    /\ heap' = [live |-> heap.live \ {<<"deployment">>}, released |-> Append(heap.released, <<"deployment">>)]
    /\ ret' = RetCode("free_deployment_result", 0)
    /\ UNCHANGED <<kind, handle, cfg, peer, db, tx, last_error, calls, pending>>

NextMarshal ==
    \/ return_execution_result(EngineResults)
    \/ return_deployment_result(EngineResults)
    \/ revm_free_execution_result
    \/ revm_free_deployment_result

SpecMarshal == Init /\ [][NextMarshal]_vars

(* ------------------------- contract deployment ------------------------- *)
\* revm_deploy_contract: deployments from the zero address with empty,
\* storing and reverting init code, a deployment with gas limit 0, one from
\* the contract address, a null bytecode pointer and malformed deployer texts
DeployArgs ==
    {[deployer |-> AddrText(TRUE, ZERO), bytecode |-> b, gas_limit |-> 1] :
        b \in {SomeData(<<>>), SomeData(<<1>>), SomeData(<<2>>), NullData}}
    \cup {[deployer |-> AddrText(TRUE, ZERO), bytecode |-> SomeData(<<1>>), gas_limit |-> 0],
          [deployer |-> AddrText(FALSE, "0xbb"), bytecode |-> SomeData(<<2>>), gas_limit |-> 1],
          [deployer |-> NullText, bytecode |-> SomeData(<<1>>), gas_limit |-> 1],
          [deployer |-> ShortText, bytecode |-> SomeData(<<1>>), gas_limit |-> 1]}

\* deploy_contract_impl: translate the deployer, read its nonce, stage the
\* create-transaction, replay_commit, build the deployment result
deploy_contract_impl(k, hd, d, t, deployer, bytecode, gas_limit) ==
    LET deployer_addr == hex_to_address(deployer)
        n == DbBasic(k, hd, d, deployer_addr.val, <<>>, {})
        current_nonce == IF n.res.some THEN n.res.info.nonce ELSE 0
        staged == [caller |-> deployer_addr.val, kind |-> "Create", to |-> ZERO, value |-> 0,
                   data |-> bytecode.bytes, gas_limit |-> gas_limit, gas_price |-> GWEI,
                   nonce |-> current_nonce]
        Committed(r) ==
            IF ~r.ok THEN [ok |-> FALSE, err |-> r.err, tx |-> staged, result |-> NoResult, d |-> d]
            ELSE IF ~InBounds(r.state)
                THEN [ok |-> FALSE, err |-> "out of bounds", tx |-> staged, result |-> NoResult, d |-> d]
            ELSE [ok |-> TRUE, err |-> NoError, tx |-> staged, result |-> r.result, d |-> CacheCommit(d, r.state)]
    IN  IF ~deployer_addr.ok
            THEN [ok |-> FALSE, err |-> deployer_addr.err, tx |-> t, result |-> NoResult, d |-> d]
        ELSE IF ~n.res.ok THEN [ok |-> FALSE, err |-> n.res.err, tx |-> t, result |-> NoResult, d |-> d]
        ELSE Committed(replay(k, hd, d, staged, n.cs, {}))

\* revm_deploy_contract
revm_deploy_contract(Args) ==
    /\ kind = "mem"
    /\ \E x \in Args :
        IF x.bytecode.ptr_null
            THEN /\ ret' = RetNull("deploy_contract")
                 /\ pending' = NoResult
                 /\ UNCHANGED <<tx, db, last_error>>
        ELSE \E r \in {deploy_contract_impl(kind, handle, db, tx, x.deployer, x.bytecode, x.gas_limit)} :
                 /\ r.err # "out of bounds"
                 /\ tx' = r.tx
                 /\ db' = r.d
                 /\ pending' = r.result
                 /\ IF r.ok
                        THEN \E dep \in {deployment_result(r.result)} :
                             /\ ret' = Ret("deploy_contract", FALSE, 0,
                                           [NoFFI EXCEPT !.success = dep.success, !.gas_used = dep.gas_used,
                                                         !.gas_refunded = dep.gas_refunded,
                                                         !.created_address = dep.contract_address],
                                           dep.address_text, NoError)
                             /\ last_error' = last_error
                        ELSE /\ ret' = RetNull("deploy_contract")
                             /\ last_error' = r.err
    /\ calls' = <<>>
    /\ UNCHANGED <<heap, kind, handle, cfg, peer>>

\* revm_set_balance on the deployer and on the contract address
DeployBalanceArgs ==
    SetBalanceArgs \cup {<<AddrText(FALSE, "0xbb"), NumText(TRUE, 1)>>}

\* revm_set_tx: the calls from the zero address that store a word at 0xbb
DeployTxArgs == {x \in SetTxArgs : x.data = SomeData(<<1>>) /\ x.value = NumText(TRUE, 0)}

NextDeploy ==
    \/ revm_deploy_contract(DeployArgs)
    \/ revm_set_balance(DeployBalanceArgs)
    \/ revm_set_tx(DeployTxArgs)
    \/ revm_execute_commit
    \/ revm_get_last_error

SpecDeploy == Init /\ [][NextDeploy]_vars

(* --------------------- layout of the wire structs ---------------------- *)
\* The #[repr(C)] structs of statedb_types.rs as the primitives they are made
\* of, in declaration order. A nested struct of bytes has alignment 1 and no
\* padding of its own, so it is laid out as its bytes.
\* pub struct FFIAddress { pub bytes: [u8; 20] }
FFIAddress == [i \in 1..20 |-> "u8"]

\* pub struct FFIHash { pub bytes: [u8; 32] }
FFIHash == [i \in 1..32 |-> "u8"]

\* pub struct FFIU256 { pub bytes: [u8; 32] }
FFIU256 == [i \in 1..32 |-> "u8"]

\* an account record with a one-byte flag after the code hash
FFIAccountInfo_with_flag == FFIU256 \o <<"u64">> \o FFIHash \o <<"u8">>

\* pub struct FFIAccountInfo { balance: FFIU256, nonce: u64, code_hash: FFIHash }
FFIAccountInfo == FFIU256 \o <<"u64">> \o FFIHash

\* the next multiple of `align` at or after `offset`
align_up(offset, align) == ((offset + align - 1) \div align) * align

\* the layout of one struct is about to start; the alignment of u64 is the
\* target's (8 on 64-bit targets, 4 on 32-bit x86)
InitLayout ==
    /\ kind = "none"
    /\ handle = 0
    /\ cfg = DefaultCfg
    /\ peer = NoInstance
    /\ db = EmptyDb
    /\ tx = DefaultTx
    /\ last_error = NoError
    /\ ret = RetCode("start", 0)
    /\ calls = <<>>
    /\ heap = EmptyHeap
    /\ \E st \in {<<"FFIAddress", FFIAddress>>, <<"FFIHash", FFIHash>>, <<"FFIU256", FFIU256>>,
                   <<"FFIAccountInfo", FFIAccountInfo>>}, al \in {4, 8} :
        pending = [name |-> st[1], fields |-> st[2], next |-> 1, offset |-> 0, align |-> 1,
                   u64_align |-> al]

\* repr(C): the next primitive goes to the first offset at or after the
\* current one that its alignment divides; the struct's alignment is the
\* largest of its fields'
place_field ==
    /\ pending.next <= Len(pending.fields)
    /\ LET f == IF pending.fields[pending.next] = "u64"
                    THEN [size |-> 8, align |-> pending.u64_align]
                ELSE [size |-> 1, align |-> 1]
       IN  pending' = [pending EXCEPT !.next = @ + 1,
                                      !.offset = align_up(@, f.align) + f.size,
                                      !.align = IF f.align > @ THEN f.align ELSE @]
    /\ ret' = RetCode("place_field", 0)
    /\ UNCHANGED <<kind, handle, cfg, peer, db, tx, last_error, calls, heap>>

\* size_of::<T>(): the end of the last field rounded up to the alignment
size_of ==
    /\ pending.next > Len(pending.fields)
    /\ ret.op # "size_of"
    /\ ret' = RetCode("size_of", align_up(pending.offset, pending.align))
    /\ UNCHANGED <<kind, handle, cfg, peer, db, tx, last_error, calls, pending, heap>>

NextLayout ==
    \/ place_field
    \/ size_of

SpecLayout == InitLayout /\ [][NextLayout]_vars

(* ------------------------- checked properties ------------------------- *)
WriteFns == {"re_state_set_basic", "re_state_set_storage"}
ReadFns == {"re_state_basic", "re_state_storage", "re_state_code", "re_state_block_hash"}
NonCommitOps == {"execute", "view_call_contract", "call_statedb"}
CommitOps == {"execute_commit", "call_statedb_commit"}

\* the indices of the foreign calls of `cs` to function f about address a
CallsTo(cs, f, a) == {i \in DOMAIN cs : cs[i].fn = f /\ cs[i].addr = a}

\* C1: a non-committing execution (revm_execute, revm_view_call_contract,
\* revm_call_contract_statedb) issues no write foreign call and leaves every
\* account and storage value as it was, so that get_balance of any address
\* answers after it what it answered before it.
C1_NonCommitFrame ==
    [][ret'.op \in NonCommitOps =>
        /\ db' = db
        /\ \A i \in DOMAIN calls' : calls'[i].fn \notin WriteFns
        /\ kind = "mem" => \A t \in AddrArgs : get_balance_impl(db', t) = get_balance_impl(db, t)]_vars

C1_Witness ==
    /\ ret.op = "execute" /\ ~ret.sentinel /\ ret.res.success = 1
    /\ tx.kind = "Call" /\ tx.value = 1 /\ tx.caller # tx.to

\* C2: after a committing execution of a successful transfer of v from A to
\* B (A # B), B's balance is its previous balance plus v, get_balance(B)
\* reports exactly that, and on the StateDB-backed instance each account of
\* the diff received exactly one re_state_set_basic call.
C2_TransferOnce ==
    [][(ret'.op \in CommitOps /\ ~ret'.sentinel /\ ret'.res.success = 1
        /\ tx'.kind = "Call" /\ tx'.caller # tx'.to) =>
        /\ db'.acct[tx'.to].info.balance = db.acct[tx'.to].info.balance + tx'.value
        /\ kind = "mem" =>
             get_balance_impl(db', AddrText(TRUE, tx'.to)).text
                = u256_to_hex(db.acct[tx'.to].info.balance + tx'.value)
        /\ kind = "statedb" =>
             \A a \in {tx'.caller, tx'.to} : Cardinality(CallsTo(calls', "re_state_set_basic", a)) = 1]_vars

C2_Witness ==
    /\ ret.op = "execute_commit" /\ ~ret.sentinel /\ ret.res.success = 1
    /\ tx.kind = "Call" /\ tx.value = 1 /\ tx.caller # tx.to
    /\ db.acct[tx.to].info.balance >= 1

\* C3 (as claimed): when a write foreign call answered a non-zero status during
\* the commit of revm_call_contract_statedb_commit, the outcome is returned
\* non-null and the last-error slot holds the failure.
C3_CommitFailureRecorded ==
    (ret.op = "call_statedb_commit"
        /\ \E i \in DOMAIN calls : calls[i].fn \in WriteFns /\ calls[i].status # ST_OK)
    => (~ret.sentinel /\ last_error # NoError)

\* C6 (as claimed): when a read foreign call of the last operation answered an
\* error status, the operation returned the sentinel with the last error set.
C6_ReadErrorReported ==
    (\E i \in DOMAIN calls : calls[i].fn \in ReadFns /\ calls[i].status = ST_ERROR)
    => (ret.sentinel /\ last_error # NoError)

\* C7 (as claimed): whenever the last operation returned a sentinel, the
\* last-error slot is set.
C7_SentinelHasError == ret.sentinel => last_error # NoError

\* C8: revm_execute and revm_execute_commit deliver Revert as a non-null
\* outcome tagged 0 and Halt as a non-null outcome tagged -1, leaving the
\* last-error slot alone; they return null only when the engine's replay
\* itself failed.
C8_RevertHaltAreOutcomes ==
    [][ret'.op \in {"execute", "execute_commit"} =>
        LET r == replay(kind, handle, db, tx, <<>>, {})
        IN  /\ (r.ok /\ r.result.tag = "Revert") =>
                    (~ret'.sentinel /\ ret'.res.success = 0 /\ last_error' = last_error)
            /\ (r.ok /\ r.result.tag = "Halt") =>
                    (~ret'.sentinel /\ ret'.res.success = -1 /\ last_error' = last_error)
            /\ ret'.sentinel => ~r.ok]_vars

C8_Witness ==
    /\ ret.op = "execute" /\ ~ret.sentinel /\ ret.res.success = -1 /\ last_error = NoError

\* the number of times buffer b was released
Releases(b) == Cardinality({i \in DOMAIN heap.released : heap.released[i] = b})

\* C4: commit issues, for every account of the diff, exactly one
\* re_state_set_basic carrying the account's balance, nonce and code hash, and
\* for every slot of it whose present value differs from the original exactly
\* one re_state_set_storage carrying the present value, issued after the
\* account's re_state_set_basic; no other slot and no other account is
\* written, and no read call is issued.
C4_CommitWrites ==
    ret.op = "commit" =>
        /\ \A i \in DOMAIN calls : calls[i].fn \in WriteFns
        /\ \A a \in Addr :
            LET B == CallsTo(calls, "re_state_set_basic", a)
            IN  IF a \in DOMAIN pending
                    THEN Cardinality(B) = 1 /\ \A i \in B : calls[i].info = pending[a].info
                ELSE B = {}
        /\ \A a \in Addr, s \in Slot :
            LET W == {i \in CallsTo(calls, "re_state_set_storage", a) : calls[i].slot = s}
            IN  IF /\ a \in DOMAIN pending
                   /\ s \in DOMAIN pending[a].storage
                   /\ pending[a].storage[s].original # pending[a].storage[s].present
                    THEN /\ Cardinality(W) = 1
                         /\ \A i \in W :
                                /\ calls[i].val = pending[a].storage[s].present
                                /\ \A j \in CallsTo(calls, "re_state_set_basic", a) : j < i
                ELSE W = {}

C4_Witness ==
    /\ ret.op = "commit"
    /\ DOMAIN pending = Addr
    /\ DOMAIN pending["0xbb"].storage = Slot
    /\ pending["0xbb"].storage[0].original = pending["0xbb"].storage[0].present
    /\ calls[1].addr = "0xbb"
    /\ Len(calls) = 3

\* C5: committing the diff that was committed just before leaves the host's
\* accounts and storage as that first commit left them.
C5_CommitIdempotent ==
    [][(ret.op = "commit" /\ ret'.op = "commit" /\ pending' = pending) => db' = db]_vars

C5_Witness ==
    /\ ret.op = "commit"
    /\ DOMAIN pending = Addr
    /\ pending["0xbb"].info.balance = MaxBal
    /\ db.acct["0xbb"].info = pending["0xbb"].info
    /\ db.storage["0xbb"][0] = 1 /\ db.storage["0xbb"][1] = 1

\* C9 (as claimed): after code_by_hash on a reply of status 0 with a non-null
\* buffer, of whatever length, the bytes were copied and the buffer was
\* released exactly once; on any other status the buffer was not released.
C9_HostBufferReleasedOnce ==
    ret.op = "code_by_hash" =>
        /\ (pending.reply.status = ST_OK /\ ~pending.reply.ptr_null) =>
                /\ pending.ptr \notin heap.live
                /\ Releases(pending.ptr) = 1
                /\ ret.res.output_bytes = SubSeq(pending.reply.buf, 1, pending.reply.len)
        /\ pending.reply.status # ST_OK => Releases(pending.ptr) = 0

\* C10 (as claimed): after the one revm_free_execution_result call on a
\* result, the box and every buffer marshaled for it (output bytes, log
\* array, log address, topic strings, topic array, log data) has been
\* released exactly once and none is still allocated; likewise the box and
\* the address string of a deployment result after
\* revm_free_deployment_result.
C10_ResultFullyReleased ==
    /\ ret.op = "free_execution_result" =>
        \A b \in ResultBuffers(convert_execution_result(pending)) \cup {<<"result">>} :
            b \notin heap.live /\ Releases(b) = 1
    /\ ret.op = "free_deployment_result" =>
        \A b \in {deployment_result(pending).contract_address, <<"deployment">>} \ {NULL} :
            b \notin heap.live /\ Releases(b) = 1

\* C11: Database::basic on a GoDatabase issues exactly one re_state_basic
\* call for the address asked; status 0 yields the account the host wrote
\* (balance, nonce, code hash), status 1 yields "no account" and no error,
\* every other status yields an error.  An account the database does not know
\* reads as balance 0x0 through get_balance and as nonce 0 through get_nonce,
\* and a getter that is given a well-formed address leaves last_error alone.
C11_BasicStatuses ==
    [][/\ ret'.op = "basic" =>
            /\ Len(calls') = 1
            /\ calls'[1].fn = "re_state_basic" /\ calls'[1].addr = pending'.addr
            /\ pending'.reply.status = 0 =>
                    /\ pending'.out.ok /\ pending'.out.some
                    /\ pending'.out.info = pending'.reply.out_info
            /\ pending'.reply.status = 1 => pending'.out.ok /\ ~pending'.out.some
            /\ pending'.reply.status \notin {0, 1} => ~pending'.out.ok /\ ret'.sentinel
       /\ \A a \in Addr, p \in BOOLEAN :
            ~db.acct[a].exists =>
                /\ get_balance_impl(db, AddrText(p, a)) = [ok |-> TRUE, err |-> NoError, text |-> NumText(TRUE, 0)]
                /\ get_nonce_impl(db, AddrText(p, a)) = [ok |-> TRUE, err |-> NoError, val |-> 0]
       /\ (ret'.op = "get_balance" /\ ~ret'.sentinel) => last_error' = last_error
       /\ (ret'.op = "get_nonce" /\ hex_to_address(pending').ok) =>
            /\ last_error' = last_error
            /\ ret'.code = get_nonce_impl(db, pending').val
      ]_vars

\* basic answered "no account" for 0xbb after the host returned status 1
C11_Witness ==
    /\ ret.op = "basic" /\ pending.reply.status = 1 /\ pending.addr = "0xbb"
    /\ pending.out.ok /\ ~pending.out.some /\ ~ret.sentinel

\* C12: Database::code_by_hash on a GoDatabase returns zero-length code and
\* no error when the host answers status 1, the all-zero hash included; an
\* error for every status other than 0 and 1; and on status 0 exactly the
\* bytes the host supplied (none when it supplied no buffer or length 0).
C12_CodeStatuses ==
    ret.op = "code_by_hash" =>
        /\ Len(calls) = 1 /\ calls[1].fn = "re_state_code"
        /\ pending.reply.status = 1 => ~ret.sentinel /\ ret.res.output_bytes = <<>>
        /\ pending.reply.status \notin {0, 1} => ret.sentinel
        /\ pending.reply.status = 0 =>
                /\ ~ret.sentinel
                /\ ret.res.output_bytes =
                        IF pending.reply.ptr_null THEN <<>>
                        ELSE SubSeq(pending.reply.buf, 1, pending.reply.len)

\* the host answered "not found" for the all-zero hash and empty code came back
C12_Witness ==
    /\ ret.op = "code_by_hash" /\ pending.reply.status = 1
    /\ calls[1].info.code_hash = B256_ZERO
    /\ ~ret.sentinel /\ ret.res.output_len = 0

\* C13: Database::storage and Database::block_hash on a GoDatabase have no
\* "not found" case: each issues one foreign call, returns the value the host
\* wrote on status 0, and returns an error on every other status, status 1
\* included; a non-zero status never becomes a zero value.
C13_NoNotFoundCase ==
    /\ ret.op = "storage" =>
        /\ Len(calls) = 1 /\ calls[1].fn = "re_state_storage"
        /\ calls[1].addr = pending.addr /\ calls[1].slot = pending.slot
    /\ ret.op = "block_hash" =>
        /\ Len(calls) = 1 /\ calls[1].fn = "re_state_block_hash"
        /\ calls[1].slot = pending.slot
    /\ ret.op \in {"storage", "block_hash"} =>
        /\ pending.reply.status = 0 =>
                pending.out.ok /\ ~ret.sentinel /\ pending.out.val = pending.reply.out_val
        /\ pending.reply.status # 0 => ~pending.out.ok /\ ret.sentinel

\* the host answered status 1 for a slot it had written a value for, and the
\* read failed
C13_Witness ==
    /\ ret.op = "storage" /\ pending.reply.status = 1 /\ pending.reply.out_val = MaxVal
    /\ ~pending.out.ok /\ ret.sentinel

C16_HandleFixed ==
    [][/\ ret'.op = "new_with_statedb" => handle' = pending'.handle
       /\ ret'.op \in {"call_statedb", "call_statedb_commit"} =>
            /\ handle' = handle
            /\ \A i \in DOMAIN calls' : calls'[i].handle = handle
       /\ ret'.op = "select" => handle' = peer.handle /\ peer'.handle = handle
      ]_vars

\* the instance over handle 9 committed a call, next to one over handle 7
C16_Witness ==
    /\ ret.op = "call_statedb_commit" /\ ~ret.sentinel
    /\ handle = 9 /\ peer.kind = "statedb" /\ peer.handle = 7
    /\ \E i \in DOMAIN calls : calls[i].fn = "re_state_set_basic" /\ calls[i].handle = 9
    /\ \E i \in DOMAIN calls : calls[i].fn = "re_state_basic" /\ calls[i].handle = 9

\* C17: with two instances over distinct handles, in whatever order the host
\* calls them, every foreign call of an entry point carries the handle of the
\* instance it was called on and never the other's, and the entry point (a
\* second construction included) leaves the other instance's staged
\* transaction, configuration, last error and host state as they were.
C17_InstancesIndependent ==
    [][/\ ret'.op \in {"call_statedb", "call_statedb_commit", "new_with_statedb"} =>
            /\ peer' = peer
            /\ \A i \in DOMAIN calls' :
                    calls'[i].handle = handle' /\ calls'[i].handle # peer.handle
       /\ ret'.op = "select" => peer' = ThisInstance /\ ThisInstance' = peer
      ]_vars

\* one instance has just committed a call while the other holds a last error
\* and another staged transaction
C17_Witness ==
    /\ kind = "statedb" /\ peer.kind = "statedb" /\ handle # peer.handle
    /\ ret.op = "call_statedb_commit" /\ ~ret.sentinel /\ Len(calls) > 0
    /\ last_error = NoError /\ peer.last_error # NoError
    /\ tx # peer.tx /\ cfg # peer.cfg

\* C19 (as claimed): revm_new_with_config on a non-null config returns an
\* in-memory instance configured as the config says, and the caller goes on.
C19_ConfigConstructs ==
    (ret.op = "new_with_config" /\ ~pending.config.null) =>
        /\ ~ret.sentinel
        /\ kind = "mem"
        /\ cfg = cfg_env(pending.config)

C20_HelperWritesToHost ==
    (ret.op = "set_balance" /\ ~ret.sentinel) =>
        \E i \in DOMAIN calls : calls[i].fn = "re_state_set_basic"

\* C23: result marshaling maps each engine outcome to the wire result:
\* Success gives tag 1 with gas used, gas refunded, the output bytes and all
\* logs in the engine's order; Revert gives tag 0 with gas used and the output
\* bytes, gas refunded 0 and no logs; Halt gives tag -1 with gas used, gas
\* refunded 0, no output and no logs.
C23_OutcomeMarshaled ==
    ret.op = "execute" =>
        LET e == pending
            w == ret.res
            Fits(g, f) == g <= WireMax => f = g
        IN  /\ e.tag = "Success" =>
                /\ w.success = 1
                /\ Fits(e.gas_used, w.gas_used)
                /\ Fits(e.gas_refunded, w.gas_refunded)
                /\ w.output_bytes = e.output /\ w.output_len = Len(e.output)
                /\ (w.output_data = NULL) = (e.output = <<>>)
                /\ w.logs_count = Len(e.logs)
                /\ (w.logs = NULL) = (e.logs = <<>>)
                /\ DOMAIN w.log_vals = DOMAIN e.logs
                /\ \A i \in DOMAIN e.logs :
                        /\ w.log_vals[i].address_text = AddrText(TRUE, e.logs[i].address)
                        /\ w.log_vals[i].topics_count = Len(e.logs[i].topics)
                        /\ w.log_vals[i].topic_vals = e.logs[i].topics
                        /\ w.log_vals[i].data_bytes = e.logs[i].data
                        /\ w.log_vals[i].data_len = Len(e.logs[i].data)
            /\ e.tag = "Revert" =>
                /\ w.success = 0
                /\ Fits(e.gas_used, w.gas_used)
                /\ w.gas_refunded = 0
                /\ w.output_bytes = e.output /\ w.output_len = Len(e.output)
                /\ w.logs_count = 0 /\ w.logs = NULL /\ w.log_vals = <<>>
            /\ e.tag = "Halt" =>
                /\ w.success = -1
                /\ Fits(e.gas_used, w.gas_used)
                /\ w.gas_refunded = 0
                /\ w.output_len = 0 /\ w.output_data = NULL /\ w.output_bytes = <<>>
                /\ w.logs_count = 0 /\ w.logs = NULL /\ w.log_vals = <<>>
            /\ e.tag \in {"Success", "Revert", "Halt"}

\* a Success with two different logs and a refund has been marshaled
C23_Witness ==
    /\ ret.op = "execute"
    /\ pending.tag = "Success"
    /\ Len(pending.logs) = 2
    /\ pending.logs[1] # pending.logs[2]
    /\ ret.res.logs_count = 2

\* C24 (as claimed): for every engine gas counter value g, the wire gas_used
\* and gas_refunded fields of a returned result equal g when g fits the wire
\* integer and equal the wire maximum otherwise.
C24_GasSaturates ==
    ret.op \in {"execute", "deploy_contract"} =>
        LET Clamp(g) == IF g <= WireMax THEN g ELSE WireMax
        IN  /\ ret.res.gas_used = Clamp(pending.gas_used)
            /\ ret.res.gas_refunded = Clamp(pending.gas_refunded)

\* C24 (amended): every engine gas counter the marshaling carries to the wire
\* (gas_used of an execution result, gas_refunded of a Success execution
\* result, gas_used of a successful deployment) equals g when g fits the wire
\* integer and the wire maximum otherwise, never g modulo the wire width, and
\* the result is still returned; a deployment result reports gas_refunded 0
\* always and gas_used 0 for an outcome other than Success.
C24_CarriedGasSaturates ==
    LET Clamp(g) == IF g <= WireMax THEN g ELSE WireMax
    IN  /\ ret.op = "execute" =>
            /\ ~ret.sentinel
            /\ ret.res.gas_used = Clamp(pending.gas_used)
            /\ ret.res.gas_refunded = IF pending.tag = "Success" THEN Clamp(pending.gas_refunded) ELSE 0
        /\ ret.op = "deploy_contract" =>
            /\ ~ret.sentinel
            /\ ret.res.gas_used = IF pending.tag = "Success" THEN Clamp(pending.gas_used) ELSE 0
            /\ ret.res.gas_refunded = 0

\* a result whose two gas counters both exceed the wire maximum was returned
C24_Witness ==
    /\ ret.op = "execute"
    /\ pending.gas_used > WireMax
    /\ pending.gas_refunded > WireMax
    /\ ret.res.gas_used = WireMax
    /\ ret.res.gas_refunded = WireMax

\* C22: a deploy_contract whose create-transaction ends in Revert or Halt
\* returns a non-null deployment result with success = 0 and a null contract
\* address, and leaves the last-error slot as it was; one that ends in
\* Success with a created address returns success = 1 with that address.
C22_DeployOutcomeReported ==
    [][ret'.op = "deploy_contract" =>
        /\ pending'.tag \in {"Revert", "Halt"} =>
            /\ ~ret'.sentinel
            /\ ret'.res.success = 0
            /\ ret'.res.created_address = NULL
            /\ last_error' = last_error
        /\ (pending'.tag = "Success" /\ pending'.created # "none") =>
            /\ ~ret'.sentinel
            /\ ret'.res.success = 1
            /\ ret'.res.created_address # NULL
            /\ ret'.text = AddrText(TRUE, pending'.created)
            /\ last_error' = last_error]_vars

\* a deployment halted after an earlier error was recorded, and the slot
\* still holds that error
C22_Witness ==
    /\ ret.op = "deploy_contract"
    /\ pending.tag = "Halt"
    /\ ret.res.success = 0
    /\ last_error # NoError

\* C27: a set_transaction given a null caller, or a malformed address or hex
\* text in any field, returns -1, records the error in the last-error slot
\* and leaves the previously staged transaction entirely unchanged.
C27_FailedSetTxKeepsStaged ==
    [][\A x \in SetTxArgs :
        ((\/ x.caller.k # "addr"
          \/ x.to.k \notin {"null", "addr"}
          \/ x.value.k \notin {"null", "num"}
          \/ x.gas_price.k \notin {"null", "num"}) /\ revm_set_tx({x})) =>
            /\ ret'.code = -1
            /\ last_error' # NoError
            /\ tx' = tx]_vars

\* a set_transaction failed over a staged transaction that is not the default
C27_Witness ==
    /\ ret.op = "set_tx"
    /\ ret.code = -1
    /\ last_error # NoError
    /\ tx.caller = "0xbb"

\* C28: the last-error slot is cleared only at the start of set_transaction:
\* every other operation leaves the slot unchanged when it succeeds, and
\* revm_get_last_error returns what the slot holds, so an earlier error is
\* still returned after later successful operations other than
\* set_transaction.
C28_ErrorSticky ==
    [][/\ (ret'.op # "set_tx" /\ ~ret'.sentinel) => last_error' = last_error
       /\ ret'.op = "get_last_error" => ret'.msg = last_error
       /\ (last_error # NoError /\ last_error' = NoError) => (ret'.op = "set_tx" /\ ret'.code = 0)]_vars

\* a transaction was executed and committed while the slot held an earlier
\* error, and the slot still holds it
C28_Witness ==
    /\ ret.op = "execute_commit"
    /\ ~ret.sentinel
    /\ last_error # NoError

\* C30: set_balance replaces the whole account record: after set_balance(a, b)
\* succeeds the balance of a is b, its nonce 0 and its code empty, whatever
\* nonce and code it had before; the storage of a and every other account
\* are unchanged.
C30_SetBalanceReplaces ==
    [][\A x \in DeployBalanceArgs :
        (x[1].k = "addr" /\ x[2].k = "num" /\ revm_set_balance({x})) =>
            /\ ret'.code = 0
            /\ db'.acct[x[1].a] = SomeAccount(AccountInfo(x[2].v, 0, KECCAK_EMPTY))
            /\ \A o \in Addr \ {x[1].a} : db'.acct[o] = db.acct[o]
            /\ db'.storage = db.storage]_vars

\* set_balance succeeded on an account that had code and a stored word: the
\* record is fresh and the word is still there
C30_Witness ==
    /\ ret.op = "set_balance"
    /\ ret.code = 0
    /\ db.acct["0xbb"] = SomeAccount(AccountInfo(1, 0, KECCAK_EMPTY))
    /\ db.storage["0xbb"][0] = 1

\* C29: commit never stops early: whatever statuses the write foreign calls
\* return, every account in the diff receives its write_account call and
\* every changed slot its write_storage call.
C29_CommitNeverStops ==
    ret.op = "commit" =>
        /\ \A a \in DOMAIN pending :
            /\ Cardinality({i \in DOMAIN calls :
                    /\ calls[i].fn = "re_state_set_basic"
                    /\ calls[i].addr = a
                    /\ calls[i].info = pending[a].info}) = 1
            /\ \A s \in DOMAIN pending[a].storage :
                pending[a].storage[s].original # pending[a].storage[s].present =>
                    Cardinality({i \in DOMAIN calls :
                        /\ calls[i].fn = "re_state_set_storage"
                        /\ calls[i].addr = a
                        /\ calls[i].slot = s
                        /\ calls[i].val = pending[a].storage[s].present}) = 1
        /\ \A i \in DOMAIN calls : calls[i].handle = handle /\ calls[i].fn \in WriteFns

\* a commit whose first write was rejected went on to issue three more
C29_Witness ==
    /\ ret.op = "commit"
    /\ Len(calls) = 4
    /\ calls[1].status = ST_ERROR
    /\ calls[4].status = ST_OK

\* C26: the wire structs have exactly these byte sizes: Address 20, Hash 32,
\* UInt256 32, AccountSummary 72 (32 + 8 + 32 with no padding).
C26_WireSizes ==
    ret.op = "size_of" =>
        /\ pending.name = "FFIAddress" => ret.code = 20
        /\ pending.name = "FFIHash" => ret.code = 32
        /\ pending.name = "FFIU256" => ret.code = 32
        /\ pending.name = "FFIAccountInfo" => ret.code = 72 /\ ret.code = 32 + 8 + 32
        /\ ret.code = Cardinality({i \in DOMAIN pending.fields : pending.fields[i] = "u8"})
                        + 8 * Cardinality({i \in DOMAIN pending.fields : pending.fields[i] = "u64"})

\* the account record was laid out for a target that aligns u64 to 8 bytes
C26_Witness ==
    /\ ret.op = "size_of"
    /\ pending.name = "FFIAccountInfo"
    /\ pending.u64_align = 8
    /\ ret.code = 72

\* C25 (as claimed): constructing an instance with a hardfork ordinal that is
\* not in the table (its arms are 0..20) never fails and selects the hardfork
\* of the highest ordinal the table recognises.
C25_UnknownOrdinalNewest ==
    (/\ ret.op \in {"new_with_statedb", "new_with_config"}
     /\ ~pending.config.null
     /\ pending.config.spec_id \notin 0..20) =>
        /\ ~ret.sentinel
        /\ kind \in {"mem", "statedb"}
        /\ cfg.spec = spec_id(20)

\* C21 (as claimed): after an instance has been destroyed, no later
\* operation naming it is accepted, reads or writes its state, or issues a
\* foreign call with its handle.
C21_FreedUnreachable ==
    [][((\E i \in DOMAIN heap.released : heap.released[i] = <<"instance", handle>>)
         /\ ret'.op \in {"call_statedb", "call_statedb_commit"}) =>
            /\ ret'.sentinel
            /\ calls' = <<>>
            /\ db' = db /\ tx' = tx /\ last_error' = last_error]_vars

====
